---------------------------- MODULE Spec2Model ----------------------------
(***************************************************************************)
(* Model of the trade risk management calculator (React component App).    *)
(*                                                                         *)
(* The component keeps its form fields as text in React state and          *)
(* recomputes `results = calculateRiskReward()` on every render.  The      *)
(* model keeps one variable per useState cell plus `rendered`, the state   *)
(* the last render closed over (`results` is calculateRiskReward of it),   *)
(* and `fetchRuns`, the calls of the async function fetchExchangeRate that *)
(* have not returned yet.  `lastFetch` is a history variable: how the call *)
(* that returned last ended.  `screen` tells which component is mounted;   *)
(* a render that throws leaves none: React removes the tree, no handler    *)
(* can fire any more and later state updates are dropped.                  *)
(*                                                                         *)
(* The repository holds a second variant of the screen (src/src/App.jsx),  *)
(* in which the leverage is typed by the user instead of derived.  Its     *)
(* calculator is modelled next to the first one, on the same form fields   *)
(* plus `leverage`, the one state cell only that variant has.  Its render  *)
(* does not throw.                                                         *)
(*                                                                         *)
(* Numbers.  A JavaScript number is an IEEE-754 double, modelled as a      *)
(* record [s, h, l, e]:                                                    *)
(*   finite non-zero   s * (h * 2^27 + l) * 2^e, s = 1 or -1, the mantissa *)
(*                     h * 2^27 + l normalized to 53 bits                  *)
(*   +0 / -0           h = 0, l = 0, e = 0                                 *)
(*   +Infinity / -Inf  h = 0, l = 0, e = 1                                 *)
(*   NaN               s = 0                                               *)
(* Every arithmetic operator rounds its exact result to the nearest double *)
(* (ties to even), with gradual underflow and overflow to Infinity, and    *)
(* follows the ECMAScript rules for the special values.                    *)
(*                                                                         *)
(* Text.  A form field is a sequence of one-character strings, so that     *)
(* parseFloat is modelled as the parser it is.  A value a rate source      *)
(* delivers may also be a text or a boolean: [text |-> t], [bool |-> b].   *)
(***************************************************************************)
EXTENDS Integers, Sequences, FiniteSets, TLC

-----------------------------------------------------------------------------
(* JavaScript numbers: IEEE-754 doubles *)

HalfBits == 27

HalfBase == 2^HalfBits

MantissaBits == 53

\* the exponent of the smallest subnormal and of the largest finite double
MinExponent == -1074

MaxExponent == 971

NaN == [s |-> 0, h |-> 0, l |-> 0, e |-> 0]

Zero(s) == [s |-> s, h |-> 0, l |-> 0, e |-> 0]

Infinity(s) == [s |-> s, h |-> 0, l |-> 0, e |-> 1]

IsNaN(x) == x.s = 0

IsInf(x) == x.s # 0 /\ x.h = 0 /\ x.e = 1

IsZero(x) == x.s # 0 /\ x.h = 0 /\ x.e = 0

\* sign of a non-NaN number: 1 or -1 (signed zeros and infinities included)
Sgn(x) == x.s

AbsInt(i) == IF i < 0 THEN -i ELSE i

MaxInt(i, j) == IF i >= j THEN i ELSE j

\* Magnitudes are sequences of limbs of HalfBits bits, least significant
\* first.  Limb i of r, zero beyond its length
Limb(r, i) == IF 1 <= i /\ i <= Len(r) THEN r[i] ELSE 0

\* the HalfBits bits of r from bit pos up (bit 0 the least significant)
Window(r, pos) ==
    Limb(r, pos \div HalfBits + 1) \div 2^(pos % HalfBits)
    + (Limb(r, pos \div HalfBits + 2) % 2^(pos % HalfBits))
      * 2^(HalfBits - (pos % HalfBits))

\* bit pos of r
BitAt(r, pos) == (Limb(r, pos \div HalfBits + 1) \div 2^(pos % HalfBits)) % 2

\* the n low bits of r are all zero
LowZero(r, n) ==
    /\ \A i \in 1 .. (n \div HalfBits) : Limb(r, i) = 0
    /\ Limb(r, n \div HalfBits + 1) % 2^(n % HalfBits) = 0

\* number of bits of a limb
RECURSIVE BitLen(_)
BitLen(n) ==
    IF n >= 32 THEN 5 + BitLen(n \div 32)
    ELSE IF n >= 16 THEN 5 ELSE IF n >= 8 THEN 4 ELSE IF n >= 4 THEN 3
    ELSE IF n >= 2 THEN 2 ELSE n

\* the highest limb of r that is not zero; 0 when r is zero
TopLimb(r) ==
    CHOOSE i \in 0 .. Len(r) :
        (i = 0 \/ r[i] # 0) /\ \A k \in (i + 1) .. Len(r) : r[k] = 0

\* number of bits of a magnitude
BitLenAt(r, i) == IF i = 0 THEN 0 ELSE HalfBits * (i - 1) + BitLen(r[i])

BitLenOf(r) == BitLenAt(r, TopLimb(r))

\* a + b and a - b (a >= b) on magnitudes of the same length
RECURSIVE AddFrom(_, _, _, _)
AddFrom(a, b, i, carry) ==
    IF i > Len(a) THEN <<>>
    ELSE <<(a[i] + b[i] + carry) % HalfBase>>
         \o AddFrom(a, b, i + 1, (a[i] + b[i] + carry) \div HalfBase)

RECURSIVE SubFrom(_, _, _, _)
SubFrom(a, b, i, borrow) ==
    IF i > Len(a) THEN <<>>
    ELSE IF a[i] - b[i] - borrow < 0
    THEN <<a[i] - b[i] - borrow + HalfBase>> \o SubFrom(a, b, i + 1, 1)
    ELSE <<a[i] - b[i] - borrow>> \o SubFrom(a, b, i + 1, 0)

\* x * y for limbs x and y, as two limbs: the limbs are split in 14 and 13
\* bits so that no product leaves 31 bits; p00, mid and p11 are low * low,
\* the two cross products, and high * high
MulLimbsOf(p00, mid, p11) ==
    <<(p00 + (mid % 2^13) * 2^14) % HalfBase,
      2 * p11 + mid \div 2^13 + (p00 + (mid % 2^13) * 2^14) \div HalfBase>>

MulLimbs(x, y) ==
    MulLimbsOf((x % 2^14) * (y % 2^14),
               (x \div 2^14) * (y % 2^14) + (x % 2^14) * (y \div 2^14),
               (x \div 2^14) * (y \div 2^14))

\* the finite double s * (h * 2^27 + l) * 2^e, 2^52 <= h * 2^27 + l < 2^53;
\* Infinity past the largest double
Pack(s, h, l, e) ==
    IF e > MaxExponent THEN Infinity(s) ELSE [s |-> s, h |-> h, l |-> l, e |-> e]

\* v * 2^n for a two-limb v below 2^(53 - n)
ShiftLeft(v, n) ==
    IF n < HalfBits
    THEN <<(v[1] % 2^(HalfBits - n)) * 2^n, v[2] * 2^n + v[1] \div 2^(HalfBits - n)>>
    ELSE <<0, v[1] * 2^(n - HalfBits)>>

NormalBy(s, v, e, n) == Pack(s, ShiftLeft(v, n)[2], ShiftLeft(v, n)[1], e - n)

\* the double s * v * 2^e for a two-limb v of at most 2^53, exactly
Normal(s, v, e) ==
    IF v[1] = 0 /\ v[2] = 0 THEN Zero(s)
    ELSE IF v[2] = 2^(MantissaBits - HalfBits) THEN Pack(s, v[2] \div 2, 0, e + 1)
    ELSE NormalBy(s, v, e, MantissaBits - BitLenOf(v))

\* q + 1 for a two-limb q if up, else q
Bump(q, up) ==
    IF ~up THEN q
    ELSE IF q[1] + 1 = HalfBase THEN <<0, q[2] + 1>>
    ELSE <<q[1] + 1, q[2]>>

\* r * 2^e rounded at bit k > 0 of r to nearest, ties to even.  sticky: the
\* exact value is a little above r * 2^e, by less than 2^e
RoundAt(s, r, e, sticky, k) ==
    Normal(s, Bump(<<Window(r, k), Window(r, k + HalfBits)>>,
                   /\ BitAt(r, k - 1) = 1
                   /\ (sticky \/ ~LowZero(r, k - 1) \/ BitAt(r, k) = 1)),
           e + k)

\* rounds at bit k of r, or takes r as it is when nothing is dropped
RoundFrom(s, r, e, sticky, k) ==
    IF k <= 0 THEN Normal(s, <<r[1], Limb(r, 2)>>, e)
    ELSE RoundAt(s, r, e, sticky, k)

\* the double nearest to s * r * 2^e for a magnitude r > 0: 53 bits are kept,
\* fewer when the result is subnormal
Round(s, r, e, sticky) ==
    RoundFrom(s, r, e, sticky, MaxInt(BitLenOf(r) - MantissaBits, MinExponent - e))

\* the number i
Num(i) ==
    Normal(IF i < 0 THEN -1 ELSE 1, <<AbsInt(i) % HalfBase, AbsInt(i) \div HalfBase>>, 0)

Neg(x) == [x EXCEPT !.s = -x.s]

\* the mantissa of a finite double
Mantissa(x) == <<x.l, x.h>>

\* the limbs of a product of two mantissas, from the sums of the partial
\* products
CarryLimbs(c0, c1, c2, c3) ==
    <<c0, c1 % HalfBase, (c2 + c1 \div HalfBase) % HalfBase,
      c3 + (c2 + c1 \div HalfBase) \div HalfBase>>

MulParts(ll, lh, hl, hh) ==
    CarryLimbs(ll[1], ll[2] + lh[1] + hl[1], lh[2] + hl[2] + hh[1], hh[2])

MulMantissas(x, y) ==
    MulParts(MulLimbs(x.l, y.l), MulLimbs(x.l, y.h), MulLimbs(x.h, y.l),
             MulLimbs(x.h, y.h))

\* x * y
Mul(x, y) ==
    IF IsNaN(x) \/ IsNaN(y) THEN NaN
    ELSE IF IsInf(x) \/ IsInf(y)
         THEN IF IsZero(x) \/ IsZero(y) THEN NaN ELSE Infinity(x.s * y.s)
    ELSE IF IsZero(x) \/ IsZero(y) THEN Zero(x.s * y.s)
    ELSE Round(x.s * y.s, MulMantissas(x, y), x.e + y.e, FALSE)

\* -1, 0 or 1 as a < b, a = b or a > b, for mantissas
CmpMantissa(a, b) ==
    IF a[2] # b[2] THEN (IF a[2] < b[2] THEN -1 ELSE 1)
    ELSE IF a[1] # b[1] THEN (IF a[1] < b[1] THEN -1 ELSE 1)
    ELSE 0

\* Long division by the mantissa d, 14 bits of the quotient at a time, for a
\* remainder r < d.  The next digit is the largest c with c * d <= r * 2^14;
\* dividing the leading 17 bits of r by the leading 17 bits of d plus one
\* gives c or c - 1
DigitBits == 14

DivEstimate(d, r) == ((r[2] \div 2^9) * 2^DigitBits) \div (d[2] \div 2^9 + 1)

\* c * d as three limbs
DigitTimes(cl, ch) == <<cl[1], (cl[2] + ch[1]) % HalfBase, ch[2] + (cl[2] + ch[1]) \div HalfBase>>

\* r * 2^14 as three limbs
DivShifted(r) ==
    <<(r[1] % 2^13) * 2^DigitBits, (r[2] % 2^13) * 2^DigitBits + r[1] \div 2^13,
      r[2] \div 2^13>>

\* r * 2^14 - c * d, below 2 * d, as two limbs
DivRestOf(t) == <<t[1], t[2]>>

DivRest(d, r, c) ==
    DivRestOf(SubFrom(DivShifted(r),
                      DigitTimes(MulLimbs(c, d[1]), MulLimbs(c, d[2])), 1, 0))

\* the digit and the remainder after it, from the estimate c and its rest
DivCorrect(d, c, rest) ==
    IF CmpMantissa(rest, d) >= 0
    THEN [c |-> c + 1, r |-> SubFrom(rest, d, 1, 0)]
    ELSE [c |-> c, r |-> rest]

DivDigit(d, r, c) == DivCorrect(d, c, DivRest(d, r, c))

\* j more digits: q the digits found so far, the last one first
RECURSIVE DivSteps(_, _, _, _)
DivTake(d, q, j, cr) == DivSteps(d, cr.r, <<cr.c>> \o q, j - 1)

DivSteps(d, r, q, j) ==
    IF j = 0 THEN [q |-> q, r |-> r]
    ELSE DivTake(d, q, j, DivDigit(d, r, DivEstimate(d, r)))

QuotientDigits == 4

\* the limbs of lead * 2^56 + q[4] * 2^42 + q[3] * 2^28 + q[2] * 2^14 + q[1]
QuotientLimbs(q, lead) ==
    <<q[1] + (q[2] % 2^13) * 2^14,
      q[2] \div 2^13 + q[3] * 2 + (q[4] % 2^12) * 2^15,
      q[4] \div 2^12 + lead * 4>>

DivRound(s, e, lead, qr) ==
    Round(s, QuotientLimbs(qr.q, lead), e, qr.r # <<0, 0>>)

\* the quotient of two mantissas: n \div d is 0 or 1
DivMantissas(s, n, d, e, lead) ==
    DivRound(s, e - QuotientDigits * DigitBits, lead,
             DivSteps(d, IF lead = 1 THEN SubFrom(n, d, 1, 0) ELSE n, <<>>,
                      QuotientDigits))

\* x / y
Div(x, y) ==
    IF IsNaN(x) \/ IsNaN(y) THEN NaN
    ELSE IF IsInf(x)
         THEN IF IsInf(y) THEN NaN ELSE Infinity(x.s * y.s)
    ELSE IF IsInf(y) THEN Zero(x.s * y.s)
    ELSE IF IsZero(y)
         THEN IF IsZero(x) THEN NaN ELSE Infinity(x.s * y.s)
    ELSE IF IsZero(x) THEN Zero(x.s * y.s)
    ELSE DivMantissas(x.s * y.s, Mantissa(x), Mantissa(y), x.e - y.e,
                      IF CmpMantissa(Mantissa(x), Mantissa(y)) >= 0 THEN 1 ELSE 0)

\* the number n / d for integers n and d > 0: the double nearest to the
\* quotient, which is what a decimal literal denotes
Q(n, d) == Div(Num(n), Num(d))

\* -1, 0 or 1 as |x| < |y|, |x| = |y| or |x| > |y|, for finite non-zero x, y
CmpMagnitude(x, y) ==
    IF x.e # y.e THEN (IF x.e < y.e THEN -1 ELSE 1)
    ELSE CmpMantissa(Mantissa(x), Mantissa(y))

\* A sum is exact when the exponents differ by at most GuardBits; when they
\* differ by more, the smaller operand lies below 2^(-FarBits) units of the
\* larger one's last bit and only makes the result inexact
GuardBits == 55

FarBits == 3

ZeroLimbs == <<0, 0, 0, 0>>

\* the mantissa m * 2^n as four limbs, n <= GuardBits
Shifted(m, n) ==
    SubSeq(SubSeq(ZeroLimbs, 1, n \div HalfBits)
           \o <<(m[1] % 2^(HalfBits - (n % HalfBits))) * 2^(n % HalfBits),
                (m[2] % 2^(HalfBits - (n % HalfBits))) * 2^(n % HalfBits)
                + m[1] \div 2^(HalfBits - (n % HalfBits)),
                m[2] \div 2^(HalfBits - (n % HalfBits)), 0>>, 1, 4)

\* |x| + |y| or |x| - |y| with the sign s, for |x| > |y|, x.e - y.e = n
SumLimbs(a, b, minus) ==
    IF minus THEN SubFrom(a, b, 1, 0) ELSE AddFrom(a, b, 1, 0)

\* |x| + |y|, or |x| - |y| if minus, with the sign of x, for |x| > |y|; far:
\* the exponents differ by more than GuardBits
SumOrdered(x, y, minus, far) ==
    Round(x.s,
          SumLimbs(Shifted(Mantissa(x), IF far THEN FarBits ELSE x.e - y.e),
                   IF far THEN (IF minus THEN <<1, 0, 0, 0>> ELSE ZeroLimbs)
                   ELSE <<y.l, y.h, 0, 0>>,
                   minus),
          IF far THEN x.e - FarBits ELSE y.e, far)

SumLarger(x, y) == SumOrdered(x, y, x.s # y.s, x.e - y.e > GuardBits)

\* x + y for finite non-zero x and y
SumFinite(x, y, cmp) ==
    IF cmp = 0 /\ x.s # y.s THEN Zero(1)
    ELSE SumLarger(IF cmp >= 0 THEN x ELSE y, IF cmp >= 0 THEN y ELSE x)

\* x + y
Add(x, y) ==
    IF IsNaN(x) \/ IsNaN(y) THEN NaN
    ELSE IF IsInf(x)
         THEN IF IsInf(y) /\ y.s # x.s THEN NaN ELSE x
    ELSE IF IsInf(y) THEN y
    ELSE IF IsZero(x)
         THEN IF IsZero(y) /\ x.s # y.s THEN Zero(1) ELSE y
    ELSE IF IsZero(y) THEN x
    ELSE SumFinite(x, y, CmpMagnitude(x, y))

\* x - y
Sub(x, y) == Add(x, Neg(y))

\* x < y for numbers other than NaN
Below(x, y) ==
    IF IsZero(x) /\ IsZero(y) THEN FALSE
    ELSE IF x.s # y.s THEN x.s < y.s
    ELSE IF IsInf(x) \/ IsZero(y) THEN x.s < 0 /\ ~IsInf(y)
    ELSE IF IsInf(y) \/ IsZero(x) THEN x.s > 0
    ELSE CmpMagnitude(x, y) = -x.s

\* x < y
Lt(x, y) == ~IsNaN(x) /\ ~IsNaN(y) /\ Below(x, y)

\* x === y on numbers (NaN differs from itself, +0 equals -0)
EqNum(x, y) ==
    /\ ~IsNaN(x) /\ ~IsNaN(y)
    /\ (x = y \/ (IsZero(x) /\ IsZero(y)))

\* x <= y
Le(x, y) == Lt(x, y) \/ EqNum(x, y)

\* x > y
Gt(x, y) == Lt(y, x)

\* x >= y
Ge(x, y) == Le(y, x)

\* ToBoolean on a number: NaN, +0 and -0 are falsy
Truthy(x) == ~IsNaN(x) /\ ~IsZero(x)

MathAbs(x) == IF IsNaN(x) THEN NaN ELSE [x EXCEPT !.s = 1]

\* an integral finite value (what Number.isInteger tests)
IsInteger(x) ==
    \/ IsZero(x)
    \/ x.h # 0 /\ (x.e >= 0 \/ (x.e > -MantissaBits /\ LowZero(Mantissa(x), -x.e)))

\* the integer part of |x| plus up, for a finite x with -53 < x.e < 0
RoundedUp(x, up) ==
    Normal(x.s, Bump(<<Window(Mantissa(x), -x.e), Window(Mantissa(x), HalfBits - x.e)>>,
                     up), 0)

\* Math.round: the integer nearest to x, a tie going up; a zero result keeps
\* the sign of x
MathRound(x) ==
    IF IsNaN(x) \/ x.h = 0 \/ x.e >= 0 THEN x
    ELSE IF x.e < -MantissaBits THEN Zero(x.s)
    ELSE RoundedUp(x, /\ BitAt(Mantissa(x), -x.e - 1) = 1
                      /\ (x.s = 1 \/ ~LowZero(Mantissa(x), -x.e - 1)))

MathMin(x, y) ==
    IF IsNaN(x) \/ IsNaN(y) THEN NaN
    ELSE IF Lt(x, y) THEN x
    ELSE IF Lt(y, x) THEN y
    ELSE IF IsZero(x) /\ IsZero(y) /\ y.s = -1 THEN y
    ELSE x

MathMax(x, y) ==
    IF IsNaN(x) \/ IsNaN(y) THEN NaN
    ELSE IF Lt(x, y) THEN y
    ELSE IF Lt(y, x) THEN x
    ELSE IF IsZero(x) /\ IsZero(y) /\ y.s = 1 THEN y
    ELSE x

-----------------------------------------------------------------------------
(* parseFloat on form text *)

DigitChars == {"0", "1", "2", "3", "4", "5", "6", "7", "8", "9"}

DigitVal(c) ==
    CASE c = "0" -> 0 [] c = "1" -> 1 [] c = "2" -> 2 [] c = "3" -> 3
      [] c = "4" -> 4 [] c = "5" -> 5 [] c = "6" -> 6 [] c = "7" -> 7
      [] c = "8" -> 8 [] c = "9" -> 9

\* StrWhiteSpaceChar: the white space (TAB, VT, FF, SP, NBSP, ZWNBSP and the
\* space separators) and the line terminators (LF, CR, LS, PS).  A code point
\* that a string of the model cannot hold stands as its name, "U+2028"
WhiteSpace ==
    {" ", "\t", "\n", "\r", "\f", "", " ", "﻿", " ",
     "U+000B", "U+00A0", "U+FEFF", "U+1680", "U+2000", "U+2001", "U+2002",
     "U+2003", "U+2004", "U+2005", "U+2006", "U+2007", "U+2008", "U+2009",
     "U+200A", "U+202F", "U+205F", "U+3000", "U+2028", "U+2029"}

\* the first position of s from i on that holds no white space
RECURSIVE SkipWhiteSpace(_, _)
SkipWhiteSpace(s, i) ==
    IF i <= Len(s) /\ s[i] \in WhiteSpace THEN SkipWhiteSpace(s, i + 1) ELSE i

\* number of consecutive decimal digits of s starting at position i
RECURSIVE DigitRun(_, _)
DigitRun(s, i) ==
    IF i <= Len(s) /\ s[i] \in DigitChars THEN 1 + DigitRun(s, i + 1) ELSE 0

\* number of consecutive zeros of s starting at position i
RECURSIVE ZeroRun(_, _)
ZeroRun(s, i) ==
    IF i <= Len(s) /\ s[i] = "0" THEN 1 + ZeroRun(s, i + 1) ELSE 0

\* value of the k digits of s starting at position i, continuing from acc:
\* the value itself below cap, and cap for every value of cap or more
RECURSIVE DigitsValue(_, _, _, _, _)
DigitsValue(s, i, k, acc, cap) ==
    IF acc >= cap THEN cap
    ELSE IF k = 0 THEN acc
    ELSE DigitsValue(s, i + 1, k - 1, 10 * acc + DigitVal(s[i]), cap)

\* the digits an integer of the model holds
ChunkDigits == 9

ChunkCap == 10^ChunkDigits

\* the largest power of ten that is a double
MaxExactPower == 22

\* 10^k as a number, 0 <= k <= MaxExactPower
PowersOfTen ==
    [k \in 0 .. MaxExactPower |->
        IF k <= ChunkDigits THEN Num(10^k)
        ELSE IF k <= 2 * ChunkDigits THEN Mul(Num(ChunkCap), Num(10^(k - ChunkDigits)))
        ELSE Mul(Mul(Num(ChunkCap), Num(ChunkCap)), Num(10^(k - 2 * ChunkDigits)))]

\* the number the digit sequence ds denotes, ChunkDigits digits at a time;
\* exact up to 2^53
RECURSIVE DigitsNumber(_)
DigitsNumber(ds) ==
    IF Len(ds) <= ChunkDigits THEN Num(DigitsValue(ds, 1, Len(ds), 0, ChunkCap))
    ELSE Add(Mul(DigitsNumber(SubSeq(ds, 1, Len(ds) - ChunkDigits)),
                 PowersOfTen[ChunkDigits]),
             Num(DigitsValue(ds, Len(ds) - ChunkDigits + 1, ChunkDigits, 0, ChunkCap)))

\* Natural numbers of any size, for the exact value of a numeric text:
\* magnitudes of n limbs each.  The magnitude f as a sequence
LimbsOf(f) == f \o <<>>

\* the magnitude r on n limbs
BigOf(r, n) == LimbsOf([i \in 1 .. n |-> Limb(r, i)])

\* a carry reaches limb i of a + b: a limb below overflows and the limbs
\* between pass the carry on
CarryInto(a, b, i) ==
    \E j \in 1 .. (i - 1) :
        /\ a[j] + b[j] >= HalfBase
        /\ \A k \in (j + 1) .. (i - 1) : a[k] + b[k] = HalfBase - 1

\* a + b
BigSum(a, b, n) ==
    LimbsOf([i \in 1 .. n |->
                (a[i] + b[i] + (IF CarryInto(a, b, i) THEN 1 ELSE 0)) % HalfBase])

\* limb i of a - b borrows from the limb above
BorrowInto(a, b, i) ==
    \E j \in 1 .. (i - 1) :
        /\ a[j] < b[j]
        /\ \A k \in (j + 1) .. (i - 1) : a[k] = b[k]

\* a - b for a >= b
BigDiff(a, b, n) ==
    LimbsOf([i \in 1 .. n |->
                (a[i] - b[i] - (IF BorrowInto(a, b, i) THEN 1 ELSE 0) + HalfBase)
                % HalfBase])

\* a < b
BigLess(a, b, n) ==
    \E j \in 1 .. n : a[j] < b[j] /\ \A k \in (j + 1) .. n : a[k] = b[k]

\* a * c for a limb c: the low limbs of the products plus their high limbs
BigTimes(a, c, n) ==
    BigSum(LimbsOf([i \in 1 .. n |-> MulLimbs(a[i], c)[1]]),
           LimbsOf([i \in 1 .. n |-> IF i = 1 THEN 0 ELSE MulLimbs(a[i - 1], c)[2]]),
           n)

\* a * 2^b
BigShift(a, b, n) == LimbsOf([i \in 1 .. n |-> Window(a, HalfBits * (i - 1) - b)])

\* the digits a limb holds, and the power of five a limb holds
LimbDigits == 8

LimbFives == 11

\* a * 5^k
RECURSIVE TimesFive(_, _, _)
TimesFive(a, k, n) ==
    IF BitLenOf(a) = 0 THEN a
    ELSE IF k <= LimbFives THEN BigTimes(a, 5^k, n)
    ELSE TimesFive(TimesFive(a, k \div 2, n), k - k \div 2, n)

\* a * 10^k
TimesTen(a, k, n) == TimesFive(BigShift(a, k, n), k, n)

\* the value of the digits lo .. hi of ds: the upper half of the digits,
\* moved up by the length of the lower half, plus the lower half
RECURSIVE DigitsLimbs(_, _, _, _)
DigitsLimbs(ds, lo, hi, n) ==
    IF hi - lo < LimbDigits
    THEN BigOf(<<DigitsValue(ds, lo, hi - lo + 1, 0, 10^LimbDigits)>>, n)
    ELSE BigSum(TimesTen(DigitsLimbs(ds, lo, (lo + hi) \div 2, n),
                         hi - (lo + hi) \div 2, n),
                DigitsLimbs(ds, (lo + hi) \div 2 + 1, hi, n), n)

\* Long division of magnitudes of len bits each, 14 bits of the quotient at
\* a time, as for mantissas: the leading 17 bits give the next digit or one
\* less.  After a remainder of zero the digits are zeros
BigEstimate(d, r, len) ==
    (Window(r, len - 17) * 2^DigitBits) \div (Window(d, len - 17) + 1)

BigCorrect(d, c, rest, n) ==
    IF BigLess(rest, d, n) THEN [c |-> c, r |-> rest]
    ELSE [c |-> c + 1, r |-> BigDiff(rest, d, n)]

BigDigit(d, r, c, n) ==
    BigCorrect(d, c, BigDiff(BigShift(r, DigitBits, n), BigTimes(d, c, n), n), n)

RECURSIVE BigSteps(_, _, _, _, _, _)
BigTake(d, q, j, cr, len, n) == BigSteps(d, cr.r, <<cr.c>> \o q, j - 1, len, n)

BigSteps(d, r, q, j, len, n) ==
    IF j = 0 THEN [q |-> q, r |-> r]
    ELSE IF BitLenOf(r) = 0 THEN [q |-> [i \in 1 .. j |-> 0] \o q, r |-> r]
    ELSE BigTake(d, q, j, BigDigit(d, r, BigEstimate(d, r, len), n), len, n)

BigRound(s, e, lead, qr) ==
    Round(s, QuotientLimbs(qr.q, lead), e, \E i \in DOMAIN qr.r : qr.r[i] # 0)

\* the double nearest to s * a / d * 2^e for a and d of len bits each
BigQuotient(s, a, d, e, len, n, lead) ==
    BigRound(s, e - QuotientDigits * DigitBits, lead,
             BigSteps(d, IF lead = 1 THEN BigDiff(a, d, n) ELSE a, <<>>,
                      QuotientDigits, len, n))

BigAligned(s, a, d, e, len, n) ==
    BigQuotient(s, a, d, e, len, n, IF BigLess(a, d, n) THEN 0 ELSE 1)

\* the same for a of la bits and d of ld bits
BigDivide(s, a, d, e, la, ld, len, n) ==
    BigAligned(s, BigShift(a, len - la, n), BigShift(d, len - ld, n),
               e + la - ld, len, n)

BigRatio(s, a, d, e, n) ==
    BigDivide(s, a, d, e, BitLenOf(a), BitLenOf(d),
              MaxInt(MaxInt(BitLenOf(a), BitLenOf(d)), 17), n)

\* limbs for a dividend of k decimal digits and a divisor 5^j: a digit takes
\* less than 10/3 bits and a factor five less than 7/3
LimbsFor(k, j) == MaxInt((10 * k) \div 3, (7 * j) \div 3) \div HalfBits + 3

\* the double nearest to s * ds * 10^k for the digits ds, exactly rounded
\* from the value of the text: ds * 5^k * 2^k, or ds / 5^-k * 2^k
DecimalUp(s, ds, k, n) ==
    Round(s, TimesFive(DigitsLimbs(ds, 1, Len(ds), n), k, n),
          k, FALSE)

DecimalDown(s, ds, k, n) ==
    BigRatio(s, DigitsLimbs(ds, 1, Len(ds), n),
             TimesFive(BigOf(<<1>>, n), k, n), -k, n)

\* a double holds every integer of up to 15 digits
ExactDigits == 15

\* ds * 10^k with one rounding: ds and 10^|k| are doubles
DecimalShort(ds, k) ==
    IF k >= 0 THEN Mul(DigitsNumber(ds), PowersOfTen[k])
    ELSE Div(DigitsNumber(ds), PowersOfTen[-k])

WithSign(sg, x) == IF sg = -1 THEN Neg(x) ELSE x

\* 10^309 is beyond the largest double and 10^-324 below half the smallest
MaxDecimalExponent == 309

MinDecimalExponent == -324

\* the number nearest to sg * ds * 10^k for the digits ds, the first one not
\* a zero
DecimalRounded(sg, ds, k) ==
    IF ds = <<>> THEN Zero(sg)
    ELSE IF Len(ds) - 1 + k >= MaxDecimalExponent THEN Infinity(sg)
    ELSE IF Len(ds) + k <= MinDecimalExponent THEN Zero(sg)
    ELSE IF Len(ds) <= ExactDigits /\ AbsInt(k) <= MaxExactPower
    THEN WithSign(sg, DecimalShort(ds, k))
    ELSE IF k >= 0 THEN DecimalUp(sg, ds, k, LimbsFor(Len(ds) + k, 0))
    ELSE DecimalDown(sg, ds, -k, LimbsFor(Len(ds), -k))

\* the number nearest to sg * ds * 10^k for any digits ds
DecimalNumber(sg, ds, k) ==
    DecimalRounded(sg, SubSeq(ds, ZeroRun(ds, 1) + 1, Len(ds)), k)

\* the text word stands in s at position i
IsAt(s, i, word) ==
    i + Len(word) - 1 <= Len(s) /\ SubSeq(s, i, i + Len(word) - 1) = word

InfinityText == <<"I", "n", "f", "i", "n", "i", "t", "y">>

\* length of the sign at position i of s (0 or 1), and its value
SignLen(s, i) == IF i <= Len(s) /\ s[i] \in {"-", "+"} THEN 1 ELSE 0

SignOf(s, i) == IF i <= Len(s) /\ s[i] = "-" THEN -1 ELSE 1

\* the exponent of a text s decides its value alone from here on: s holds
\* fewer than Len(s) digits, so that with an exponent of Len(s) + 324 or more
\* a mantissa other than zero is at least 10^309 and reads as Infinity, and
\* with one of -(Len(s) + 324) or less it is below 10^-324 and reads as zero
ExponentBound(s) == Len(s) - MinDecimalExponent

\* the ExponentPart of s at position p, if there is one: e or E, an optional
\* sign and at least one digit; its value (a value of ExponentBound(s) or
\* more is kept as the bound: further digits only raise it, and the number
\* read is the same for every exponent from the bound on), 0 without one
ExponentAt(s, p) ==
    IF p <= Len(s) /\ s[p] \in {"e", "E"}
       /\ DigitRun(s, p + 1 + SignLen(s, p + 1)) > 0
    THEN SignOf(s, p + 1)
         * DigitsValue(s, p + 1 + SignLen(s, p + 1),
                       DigitRun(s, p + 1 + SignLen(s, p + 1)), 0, ExponentBound(s))
    ELSE 0

\* the decimal literal of s at position i: ki digits, then a "." and kf
\* digits if dot, then the exponent part
ParseDecimal(s, i, sg, ki, dot, kf) ==
    IF ki + kf = 0 THEN NaN
    ELSE DecimalNumber(sg, SubSeq(s, i, i + ki - 1)
                           \o SubSeq(s, i + ki + 1, i + ki + kf),
                       ExponentAt(s, i + ki + (IF dot THEN 1 + kf ELSE 0)) - kf)

ParseDigits(s, i, sg, ki, dot) ==
    ParseDecimal(s, i, sg, ki, dot, IF dot THEN DigitRun(s, i + ki + 1) ELSE 0)

ParseUnsigned(s, i, sg) ==
    IF IsAt(s, i, InfinityText) THEN Infinity(sg)
    ELSE ParseDigits(s, i, sg, DigitRun(s, i),
                     i + DigitRun(s, i) <= Len(s) /\ s[i + DigitRun(s, i)] = ".")

ParseSigned(s, i) == ParseUnsigned(s, i + SignLen(s, i), SignOf(s, i))

\* the position after the exponent part of s at position p (p without one)
ExponentEnd(s, p) ==
    IF p <= Len(s) /\ s[p] \in {"e", "E"}
       /\ DigitRun(s, p + 1 + SignLen(s, p + 1)) > 0
    THEN p + 1 + SignLen(s, p + 1) + DigitRun(s, p + 1 + SignLen(s, p + 1))
    ELSE p

DigitsEnd(s, i, j, ki, dot, kf) ==
    IF ki + kf = 0 THEN i
    ELSE ExponentEnd(s, j + ki + (IF dot THEN 1 + kf ELSE 0))

MantissaEnd(s, i, j, ki, dot) ==
    DigitsEnd(s, i, j, ki, dot, IF dot THEN DigitRun(s, j + ki + 1) ELSE 0)

UnsignedEnd(s, i, j) ==
    IF IsAt(s, j, InfinityText) THEN j + Len(InfinityText)
    ELSE MantissaEnd(s, i, j, DigitRun(s, j),
                     j + DigitRun(s, j) <= Len(s) /\ s[j + DigitRun(s, j)] = ".")

\* the position after the longest signed decimal literal of s that starts at
\* position i; i when there is none
DecimalEnd(s, i) == UnsignedEnd(s, i, i + SignLen(s, i))

\* parseFloat(s): leading white space is skipped; then an optional sign and
\* either Infinity or a decimal literal (digits, an optional "." and digits,
\* an optional exponent part).  The longest such prefix is converted and
\* the rest of the text ignored; NaN when there is none.
parseFloat(s) == ParseSigned(s, SkipWhiteSpace(s, 1))

\* the last position of s up to i that holds no white space
RECURSIVE SkipWhiteSpaceBack(_, _)
SkipWhiteSpaceBack(s, i) ==
    IF i >= 1 /\ s[i] \in WhiteSpace THEN SkipWhiteSpaceBack(s, i - 1) ELSE i

\* s without leading and trailing white space
Trim(s) == SubSeq(s, SkipWhiteSpace(s, 1), SkipWhiteSpaceBack(s, Len(s)))

\* the bits of a digit in the radix a 0x, 0o or 0b prefix announces; 0
\* without such a prefix
RadixOf(s) ==
    IF Len(s) < 2 \/ s[1] # "0" THEN 0
    ELSE IF s[2] \in {"x", "X"} THEN 4
    ELSE IF s[2] \in {"o", "O"} THEN 3
    ELSE IF s[2] \in {"b", "B"} THEN 1
    ELSE 0

\* the value of the character c as a digit; 36 when it is none
RadixDigit(c) ==
    IF c \in DigitChars THEN DigitVal(c)
    ELSE CASE c \in {"a", "A"} -> 10 [] c \in {"b", "B"} -> 11
           [] c \in {"c", "C"} -> 12 [] c \in {"d", "D"} -> 13
           [] c \in {"e", "E"} -> 14 [] c \in {"f", "F"} -> 15
           [] OTHER -> 36

\* the value of the digits lo .. hi of s, of the given number of bits each
RECURSIVE RadixLimbs(_, _, _, _, _)
RadixLimbs(s, lo, hi, bits, n) ==
    IF lo = hi THEN BigOf(<<RadixDigit(s[lo])>>, n)
    ELSE BigSum(BigShift(RadixLimbs(s, lo, (lo + hi) \div 2, bits, n),
                         bits * (hi - (lo + hi) \div 2), n),
                RadixLimbs(s, (lo + hi) \div 2 + 1, hi, bits, n), n)

\* the number the digits of s after its prefix denote: the double nearest to
\* their value; NaN if there is no digit or a character is none
RadixNumber(s, bits) ==
    IF Len(s) = 2 \/ \E i \in 3 .. Len(s) : RadixDigit(s[i]) >= 2^bits THEN NaN
    ELSE Round(1, RadixLimbs(s, 3, Len(s), bits, (bits * Len(s)) \div HalfBits + 2),
               0, FALSE)

\* the number a trimmed text denotes
TrimmedToNumber(s) ==
    IF s = <<>> THEN Zero(1)
    ELSE IF RadixOf(s) # 0 THEN RadixNumber(s, RadixOf(s))
    ELSE IF DecimalEnd(s, 1) = Len(s) + 1 THEN ParseSigned(s, 1)
    ELSE NaN

\* ToNumber on a text (what * and > do to a text operand): white space at
\* both ends is dropped; the empty text is 0; otherwise the whole text has to
\* be one numeric literal, or the result is NaN
StringToNumber(s) == TrimmedToNumber(Trim(s))

-----------------------------------------------------------------------------
(* React state of the component (one variable per useState cell) and the   *)
(* state the last render closed over                                       *)

VARIABLES
    entryPrice,         \* text of the entry price field
    stopLoss,           \* text of the stop loss field
    takeProfit,         \* text of the take profit field
    totalCapital,       \* text of the total capital field
    riskPercentage,     \* "1" or "2" (two buttons)
    assetAllocation,    \* text of the allocation field
    maxLeverage,        \* text of the max leverage field
    positionType,       \* "long" or "short"
    exchangeRate,       \* PHP per USD: a number, or what a source delivered
    isLoadingRate,      \* BOOLEAN
    enablePartialTP,    \* BOOLEAN
    partialTP1Percent,  \* text: % of the position closed at TP1
    partialTP2Percent,  \* text: % of the position closed at TP2
    rendered,           \* the React state the last render closed over
    fetchRuns,          \* the fetchExchangeRate calls in flight, oldest first
    lastFetch,          \* history: the fetchExchangeRate call that returned last
    leverage,           \* text of the leverage field of the manual-leverage
                        \* variant of the screen (src/src/App.jsx)
    screen              \* "auto": the auto-leverage screen is mounted;
                        \* "manual": the manual-leverage variant is;
                        \* "none": a render threw and nothing is mounted

vars == <<entryPrice, stopLoss, takeProfit, totalCapital, riskPercentage,
          assetAllocation, maxLeverage, positionType, exchangeRate,
          isLoadingRate, enablePartialTP, partialTP1Percent,
          partialTP2Percent, rendered, fetchRuns, lastFetch, leverage, screen>>

\* what the form's event handlers leave alone
fetchVars == <<fetchRuns, lastFetch>>

\* the React state as one record: what a render closes over
State ==
    [entryPrice |-> entryPrice, stopLoss |-> stopLoss, takeProfit |-> takeProfit,
     totalCapital |-> totalCapital, riskPercentage |-> riskPercentage,
     assetAllocation |-> assetAllocation, maxLeverage |-> maxLeverage,
     positionType |-> positionType, exchangeRate |-> exchangeRate,
     isLoadingRate |-> isLoadingRate, enablePartialTP |-> enablePartialTP,
     partialTP1Percent |-> partialTP1Percent,
     partialTP2Percent |-> partialTP2Percent, leverage |-> leverage]

\* JavaScript null
NULL == [null |-> TRUE]

\* JavaScript values that are not numbers: a text and a boolean
Text(t) == [text |-> t]

Bool(b) == [bool |-> b]

IsNumber(v) == "e" \in DOMAIN v

IsText(v) == "text" \in DOMAIN v

\* ToBoolean: null, the empty text, false, NaN and zero are falsy
ToBoolean(v) ==
    IF v = NULL THEN FALSE
    ELSE IF IsNumber(v) THEN Truthy(v)
    ELSE IF IsText(v) THEN v.text # <<>>
    ELSE v.bool

\* ToNumber
ToNumber(v) ==
    IF v = NULL THEN Zero(1)
    ELSE IF IsNumber(v) THEN v
    ELSE IF IsText(v) THEN StringToNumber(v.text)
    ELSE IF v.bool THEN Num(1) ELSE Zero(1)

-----------------------------------------------------------------------------
(* The calculator *)

getLeverageExplanation(recommendedLeverage, riskMove) ==
    IF Ge(riskMove, Num(10))
    THEN "High risk distance - using minimal leverage for safety"
    ELSE IF Ge(riskMove, Num(5))
    THEN "Moderate risk distance - conservative leverage recommended"
    ELSE IF Ge(riskMove, Num(3))
    THEN "Balanced risk distance - moderate leverage suitable"
    ELSE IF Ge(riskMove, Num(2))
    THEN "Low risk distance - higher leverage acceptable"
    ELSE "Tight stop loss - maximum safe leverage calculated"

\* the stop distance as a percentage of the entry price
riskPercentageMoveOf(entry, stop) ==
    Mul(Div(MathAbs(Sub(entry, stop)), entry), Num(100))

\* mutant: the price move taken as a fraction although it is a percentage
optimalLeverage_MoveNotPercent(entry, stop, capital, riskPct, allocation) ==
    Div(Mul(capital, Div(riskPct, Num(100))),
        Mul(Mul(capital, Div(allocation, Num(100))),
            riskPercentageMoveOf(entry, stop)))

\* mutant: the stop distance left out of the leverage formula
optimalLeverage_IgnoresMove(entry, stop, capital, riskPct, allocation) ==
    Div(Div(Mul(capital, riskPct), Num(100)),
        Div(Mul(capital, allocation), Num(100)))

\* the unrounded leverage: maxRiskAmount / (allocatedCapital * (move / 100))
optimalLeverage(entry, stop, capital, riskPct, allocation) ==
    LET maxRiskAmount    == Div(Mul(capital, riskPct), Num(100))
        allocatedCapital == Div(Mul(capital, allocation), Num(100))
    IN  Div(maxRiskAmount,
            Mul(allocatedCapital, Div(riskPercentageMoveOf(entry, stop), Num(100))))

\* Math.max(1, Math.min(rounded, maxLev)), rounded being
\* Math.round(optimalLeverage)
clampLeverage(rounded, maxLev) ==
    MathMax(Num(1), MathMin(rounded, maxLev))

\* mutant: each bracket sets the leverage to its cap instead of capping it
safetyLadder_SetsCap(recommendedLeverage, riskPercentageMove) ==
    IF Ge(riskPercentageMove, Num(10)) THEN Num(2)
    ELSE IF Ge(riskPercentageMove, Num(5)) THEN Num(5)
    ELSE IF Ge(riskPercentageMove, Num(3)) THEN Num(10)
    ELSE IF Ge(riskPercentageMove, Num(2)) THEN Num(20)
    ELSE recommendedLeverage

\* mutant: the 5% bracket caps at 50 instead of 5
safetyLadder_Cap50(recommendedLeverage, riskPercentageMove) ==
    IF Ge(riskPercentageMove, Num(10)) THEN MathMin(recommendedLeverage, Num(2))
    ELSE IF Ge(riskPercentageMove, Num(5)) THEN MathMin(recommendedLeverage, Num(50))
    ELSE IF Ge(riskPercentageMove, Num(3)) THEN MathMin(recommendedLeverage, Num(10))
    ELSE IF Ge(riskPercentageMove, Num(2)) THEN MathMin(recommendedLeverage, Num(20))
    ELSE recommendedLeverage

\* the safety constraints on the clamped leverage
safetyLadder(recommendedLeverage, riskPercentageMove) ==
    IF Ge(riskPercentageMove, Num(10)) THEN MathMin(recommendedLeverage, Num(2))
    ELSE IF Ge(riskPercentageMove, Num(5)) THEN MathMin(recommendedLeverage, Num(5))
    ELSE IF Ge(riskPercentageMove, Num(3)) THEN MathMin(recommendedLeverage, Num(10))
    ELSE IF Ge(riskPercentageMove, Num(2)) THEN MathMin(recommendedLeverage, Num(20))
    ELSE recommendedLeverage

\* the object calculateOptimalLeverage returns
leverageInfoOf(recommendedLeverage, riskPercentageMove) ==
    [optimal            |-> recommendedLeverage,
     riskPercentageMove |-> riskPercentageMove,
     explanation        |-> getLeverageExplanation(recommendedLeverage,
                                                   riskPercentageMove)]

calculateOptimalLeverage(entry, stop, capital, riskPct, allocation, maxLev) ==
    leverageInfoOf(
        safetyLadder(
            clampLeverage(MathRound(optimalLeverage(entry, stop, capital, riskPct,
                                                    allocation)),
                          maxLev),
            riskPercentageMoveOf(entry, stop)),
        riskPercentageMoveOf(entry, stop))

\* mutant: tp1 placed above the entry for shorts as well
tp1PriceOf_AlwaysAbove(entry, riskPerCoin, posType) == Add(entry, riskPerCoin)

\* TP1: one risk distance from entry on the favourable side
tp1PriceOf(entry, riskPerCoin, posType) ==
    IF posType = "long" THEN Add(entry, riskPerCoin) ELSE Sub(entry, riskPerCoin)

\* mutant: the 2R placement already from a ratio of 2
tp2PriceOf_TwoRFromTwo(entry, riskPerCoin, target, tp1Price, rrRatio, posType) ==
    IF Ge(rrRatio, Num(2))
    THEN IF posType = "long"
         THEN Add(entry, Mul(riskPerCoin, Num(2)))
         ELSE Sub(entry, Mul(riskPerCoin, Num(2)))
    ELSE Div(Add(tp1Price, target), Num(2))

\* TP2: 2R for rrRatio >= 3, 1.5R for rrRatio >= 2, else halfway TP1..target
tp2PriceOf(entry, riskPerCoin, target, tp1Price, rrRatio, posType) ==
    IF Ge(rrRatio, Num(3))
    THEN IF posType = "long"
         THEN Add(entry, Mul(riskPerCoin, Num(2)))
         ELSE Sub(entry, Mul(riskPerCoin, Num(2)))
    ELSE IF Ge(rrRatio, Num(2))
    THEN IF posType = "long"
         THEN Add(entry, Mul(riskPerCoin, Q(3, 2)))
         ELSE Sub(entry, Mul(riskPerCoin, Q(3, 2)))
    ELSE Div(Add(tp1Price, target), Num(2))

\* the object calculatePartialTPLevels returns; the label strings (toFixed)
\* of the levels are display text and are not modelled
tpLevelsOf(entry, target, riskPerCoin, tp1Price, tp2Price) ==
    [tp1 |-> [price       |-> tp1Price,
              rMultiple   |-> Num(1),
              description |-> "Secure profits and move SL to entry"],
     tp2 |-> [price       |-> tp2Price,
              rMultiple   |-> Div(MathAbs(Sub(tp2Price, entry)), riskPerCoin),
              description |-> "Lock in major profits"],
     tp3 |-> [price       |-> target,
              rMultiple   |-> Div(MathAbs(Sub(target, entry)), riskPerCoin),
              description |-> "Maximum profit target"]]

calculatePartialTPLevels(entry, stop, target, posType) ==
    LET riskPerCoin == MathAbs(Sub(entry, stop))
        tp1Price    == tp1PriceOf(entry, riskPerCoin, posType)
        totalReward == MathAbs(Sub(target, entry))
        rrRatio     == Div(totalReward, riskPerCoin)
    IN  tpLevelsOf(entry, target, riskPerCoin, tp1Price,
                   tp2PriceOf(entry, riskPerCoin, target, tp1Price, rrRatio, posType))

\* mutant: the remainder clamped at 0
tp3PercentOf_Clamped(tp1Percent, tp2Percent) ==
    MathMax(Num(0), Sub(Sub(Num(1), tp1Percent), tp2Percent))

\* mutant: the remainder forgets the second leg
tp3PercentOf_IgnoresTp2(tp1Percent, tp2Percent) == Sub(Num(1), tp1Percent)

\* 1 - tp1Percent - tp2Percent: the remaining position
tp3PercentOf(tp1Percent, tp2Percent) == Sub(Sub(Num(1), tp1Percent), tp2Percent)

\* the object calculatePartialTPProfits returns, from the three leg sizes
\* and leg profits
tpProfitsOf(recommendedAssets, riskPerCoin, tp1Percent, tp2Percent, tp3Percent, tp1Assets, tp2Assets, tp3Assets, tp1Profit, tp2Profit, tp3Profit, totalProfit) ==
    [tp1 |-> [assets |-> tp1Assets, profit |-> tp1Profit,
              percent |-> Mul(tp1Percent, Num(100))],
     tp2 |-> [assets |-> tp2Assets, profit |-> tp2Profit,
              percent |-> Mul(tp2Percent, Num(100))],
     tp3 |-> [assets |-> tp3Assets, profit |-> tp3Profit,
              percent |-> Mul(tp3Percent, Num(100))],
     totalProfit      |-> totalProfit,
     avgExitRMultiple |-> Div(totalProfit, Mul(recommendedAssets, riskPerCoin))]

\* mutant: the last leg priced at tp2 instead of the final target
tpLegsOf_LastLegAtTp2(tpLevels, recommendedAssets, riskPerCoin, entry, tp1Percent, tp2Percent, tp3Percent) ==
    LET tp1Assets == Mul(recommendedAssets, tp1Percent)
        tp2Assets == Mul(recommendedAssets, tp2Percent)
        tp3Assets == Mul(recommendedAssets, tp3Percent)
        tp1Profit == Mul(tp1Assets, MathAbs(Sub(tpLevels.tp1.price, entry)))
        tp2Profit == Mul(tp2Assets, MathAbs(Sub(tpLevels.tp2.price, entry)))
        tp3Profit == Mul(tp3Assets, MathAbs(Sub(tpLevels.tp2.price, entry)))
    IN  tpProfitsOf(recommendedAssets, riskPerCoin, tp1Percent, tp2Percent,
                    tp3Percent, tp1Assets, tp2Assets, tp3Assets,
                    tp1Profit, tp2Profit, tp3Profit,
                    Add(Add(tp1Profit, tp2Profit), tp3Profit))

\* the leg sizes and leg profits of calculatePartialTPProfits
tpLegsOf(tpLevels, recommendedAssets, riskPerCoin, entry, tp1Percent, tp2Percent, tp3Percent) ==
    LET tp1Assets == Mul(recommendedAssets, tp1Percent)
        tp2Assets == Mul(recommendedAssets, tp2Percent)
        tp3Assets == Mul(recommendedAssets, tp3Percent)
        tp1Profit == Mul(tp1Assets, MathAbs(Sub(tpLevels.tp1.price, entry)))
        tp2Profit == Mul(tp2Assets, MathAbs(Sub(tpLevels.tp2.price, entry)))
        tp3Profit == Mul(tp3Assets, MathAbs(Sub(tpLevels.tp3.price, entry)))
    IN  tpProfitsOf(recommendedAssets, riskPerCoin, tp1Percent, tp2Percent,
                    tp3Percent, tp1Assets, tp2Assets, tp3Assets,
                    tp1Profit, tp2Profit, tp3Profit,
                    Add(Add(tp1Profit, tp2Profit), tp3Profit))

\* st is the React state the function closes over (partialTP1Percent,
\* partialTP2Percent)
calculatePartialTPProfits(tpLevels, recommendedAssets, riskPerCoin, entry, st) ==
    LET tp1Percent == Div(parseFloat(st.partialTP1Percent), Num(100))
        tp2Percent == Div(parseFloat(st.partialTP2Percent), Num(100))
    IN  tpLegsOf(tpLevels, recommendedAssets, riskPerCoin, entry,
                 tp1Percent, tp2Percent, tp3PercentOf(tp1Percent, tp2Percent))

\* mutant: the long-side check applied to both directions
isValidOf_SameForShort(entry, stop, target, posType) ==
    Lt(stop, entry) /\ Gt(target, entry)

\* the directional validity check
\* mutant: the ordering check with <= and >=, so that equal prices pass it
isValidOf_NonStrict(entry, stop, target, posType) ==
    IF posType = "long"
    THEN Le(stop, entry) /\ Ge(target, entry)
    ELSE Ge(stop, entry) /\ Le(target, entry)

isValidOf(entry, stop, target, posType) ==
    IF posType = "long"
    THEN Lt(stop, entry) /\ Gt(target, entry)
    ELSE Gt(stop, entry) /\ Lt(target, entry)

\* mutant: potentialProfit taken from the partial-exit plan when it is enabled
sizingFields_ProfitFromPlan(maxRiskAmount, allocatedAmount, leverageInfo, positionValue, recommendedAssets, riskPerCoin, rewardPerCoin, entry, partialTPLevels, st) ==
    [maxRiskAmount     |-> maxRiskAmount,
     allocatedAmount   |-> allocatedAmount,
     leverageInfo      |-> leverageInfo,
     recommendedAssets |-> recommendedAssets,
     potentialLoss     |-> Mul(recommendedAssets, riskPerCoin),
     potentialProfit   |->
         IF st.enablePartialTP
         THEN calculatePartialTPProfits(partialTPLevels, recommendedAssets,
                                        riskPerCoin, entry, st).totalProfit
         ELSE Mul(recommendedAssets, rewardPerCoin),
     positionValue     |-> positionValue,
     partialTPLevels   |-> partialTPLevels,
     partialTPProfits  |->
         IF st.enablePartialTP
         THEN calculatePartialTPProfits(partialTPLevels, recommendedAssets,
                                        riskPerCoin, entry, st)
         ELSE NULL]

\* mutant: the profit computed from the risk distance
sizingFields_ProfitFromRisk(maxRiskAmount, allocatedAmount, leverageInfo, positionValue, recommendedAssets, riskPerCoin, rewardPerCoin, entry, partialTPLevels, st) ==
    [maxRiskAmount     |-> maxRiskAmount,
     allocatedAmount   |-> allocatedAmount,
     leverageInfo      |-> leverageInfo,
     recommendedAssets |-> recommendedAssets,
     potentialLoss     |-> Mul(recommendedAssets, riskPerCoin),
     potentialProfit   |-> Mul(recommendedAssets, riskPerCoin),
     positionValue     |-> positionValue,
     partialTPLevels   |-> partialTPLevels,
     partialTPProfits  |->
         IF st.enablePartialTP
         THEN calculatePartialTPProfits(partialTPLevels, recommendedAssets,
                                        riskPerCoin, entry, st)
         ELSE NULL]

\* the sizing fields once the position size is known
sizingFields(maxRiskAmount, allocatedAmount, leverageInfo, positionValue, recommendedAssets, riskPerCoin, rewardPerCoin, entry, partialTPLevels, st) ==
    [maxRiskAmount     |-> maxRiskAmount,
     allocatedAmount   |-> allocatedAmount,
     leverageInfo      |-> leverageInfo,
     recommendedAssets |-> recommendedAssets,
     potentialLoss     |-> Mul(recommendedAssets, riskPerCoin),
     potentialProfit   |-> Mul(recommendedAssets, rewardPerCoin),
     positionValue     |-> positionValue,
     partialTPLevels   |-> partialTPLevels,
     partialTPProfits  |->
         IF st.enablePartialTP
         THEN calculatePartialTPProfits(partialTPLevels, recommendedAssets,
                                        riskPerCoin, entry, st)
         ELSE NULL]

\* positionValue = allocatedAmount * leverageInfo.optimal and
\* recommendedAssets = positionValue / entry
positionOf(maxRiskAmount, allocatedAmount, leverageInfo, riskPerCoin, rewardPerCoin, entry, partialTPLevels, st) ==
    LET positionValue == Mul(allocatedAmount, leverageInfo.optimal)
    IN  sizingFields(maxRiskAmount, allocatedAmount, leverageInfo, positionValue,
                     Div(positionValue, entry), riskPerCoin, rewardPerCoin, entry,
                     partialTPLevels, st)

\* the `if (capital) { ... }` block: position sizing, leverage, partial TPs
sizingOf(entry, stop, target, capital, riskPct, allocation, maxLev, riskPerCoin, rewardPerCoin, st) ==
    positionOf(Div(Mul(capital, riskPct), Num(100)),
               Div(Mul(capital, allocation), Num(100)),
               calculateOptimalLeverage(entry, stop, capital, riskPct,
                                        allocation, maxLev),
               riskPerCoin, rewardPerCoin, entry,
               calculatePartialTPLevels(entry, stop, target, st.positionType),
               st)

\* the initial values of the sizing fields (capital absent)
noSizing ==
    [maxRiskAmount     |-> Num(0),
     allocatedAmount   |-> Num(0),
     leverageInfo      |-> NULL,
     recommendedAssets |-> Num(0),
     potentialLoss     |-> Num(0),
     potentialProfit   |-> Num(0),
     positionValue     |-> Num(0),
     partialTPLevels   |-> NULL,
     partialTPProfits  |-> NULL]

\* the object returned for a valid trade
okResult(riskPerCoin, rewardPerCoin, sizing) ==
    [riskPerCoin       |-> riskPerCoin,
     rewardPerCoin     |-> rewardPerCoin,
     ratio             |-> Div(rewardPerCoin, riskPerCoin),
     maxRiskAmount     |-> sizing.maxRiskAmount,
     allocatedAmount   |-> sizing.allocatedAmount,
     leverageInfo      |-> sizing.leverageInfo,
     recommendedAssets |-> sizing.recommendedAssets,
     potentialLoss     |-> sizing.potentialLoss,
     potentialProfit   |-> sizing.potentialProfit,
     positionValue     |-> sizing.positionValue,
     partialTPLevels   |-> sizing.partialTPLevels,
     partialTPProfits  |-> sizing.partialTPProfits,
     error             |-> FALSE]

\* mutant: the completeness check forgets the target
riskRewardOf_TargetNotChecked(entry, stop, target, capital, riskPct, allocation, maxLev, riskPerCoin, rewardPerCoin, st) ==
    IF ~Truthy(entry) \/ ~Truthy(stop) THEN NULL
    ELSE IF \/ ~isValidOf(entry, stop, target, st.positionType)
            \/ Le(riskPerCoin, Num(0))
            \/ Le(rewardPerCoin, Num(0))
    THEN [error |-> TRUE, positionType |-> st.positionType]
    ELSE okResult(riskPerCoin, rewardPerCoin,
                  IF Truthy(capital)
                  THEN sizingOf(entry, stop, target, capital, riskPct, allocation,
                                maxLev, riskPerCoin, rewardPerCoin, st)
                  ELSE noSizing)

\* mutant: the sizing block runs without the `if (capital)` test
riskRewardOf_SizesWithoutCapital(entry, stop, target, capital, riskPct, allocation, maxLev, riskPerCoin, rewardPerCoin, st) ==
    IF ~Truthy(entry) \/ ~Truthy(stop) \/ ~Truthy(target) THEN NULL
    ELSE IF \/ ~isValidOf(entry, stop, target, st.positionType)
            \/ Le(riskPerCoin, Num(0))
            \/ Le(rewardPerCoin, Num(0))
    THEN [error |-> TRUE, positionType |-> st.positionType]
    ELSE okResult(riskPerCoin, rewardPerCoin,
                  sizingOf(entry, stop, target, capital, riskPct, allocation,
                           maxLev, riskPerCoin, rewardPerCoin, st))

\* calculateRiskReward after the parseFloat calls
riskRewardOf(entry, stop, target, capital, riskPct, allocation, maxLev, riskPerCoin, rewardPerCoin, st) ==
    IF ~Truthy(entry) \/ ~Truthy(stop) \/ ~Truthy(target) THEN NULL
    ELSE IF \/ ~isValidOf(entry, stop, target, st.positionType)
            \/ Le(riskPerCoin, Num(0))
            \/ Le(rewardPerCoin, Num(0))
    THEN [error |-> TRUE, positionType |-> st.positionType]
    ELSE okResult(riskPerCoin, rewardPerCoin,
                  IF Truthy(capital)
                  THEN sizingOf(entry, stop, target, capital, riskPct, allocation,
                                maxLev, riskPerCoin, rewardPerCoin, st)
                  ELSE noSizing)

\* mutant: riskPct passed where riskPerCoin is meant
distancesOf_RiskPctAsRisk(entry, stop, target, capital, riskPct, allocation, maxLev, st) ==
    IF st.positionType = "long"
    THEN riskRewardOf(entry, stop, target, capital, riskPct, allocation, maxLev,
                      riskPct, Sub(target, entry), st)
    ELSE riskRewardOf(entry, stop, target, capital, riskPct, allocation, maxLev,
                      riskPct, Sub(entry, target), st)

\* the signed distances of calculateRiskReward
distancesOf(entry, stop, target, capital, riskPct, allocation, maxLev, st) ==
    IF st.positionType = "long"
    THEN riskRewardOf(entry, stop, target, capital, riskPct, allocation, maxLev,
                      Sub(entry, stop), Sub(target, entry), st)
    ELSE riskRewardOf(entry, stop, target, capital, riskPct, allocation, maxLev,
                      Sub(stop, entry), Sub(entry, target), st)

\* mutant: the capital converted to pesos before sizing
calculateRiskReward_CapitalInPHP(st) ==
    distancesOf(parseFloat(st.entryPrice), parseFloat(st.stopLoss),
                parseFloat(st.takeProfit),
                Mul(parseFloat(st.totalCapital), ToNumber(st.exchangeRate)),
                parseFloat(st.riskPercentage), parseFloat(st.assetAllocation),
                parseFloat(st.maxLeverage), st)

\* calculateRiskReward() evaluated on the React state st
calculateRiskReward(st) ==
    distancesOf(parseFloat(st.entryPrice), parseFloat(st.stopLoss),
                parseFloat(st.takeProfit), parseFloat(st.totalCapital),
                parseFloat(st.riskPercentage), parseFloat(st.assetAllocation),
                parseFloat(st.maxLeverage), st)

\* `const results = calculateRiskReward()` in the component body: the value
\* the last render computed
results == calculateRiskReward(rendered)

-----------------------------------------------------------------------------
(* The calculator of the manual-leverage variant (src/src/App.jsx) *)

\* mutant: the tiers tested from the most conservative one up
recommendationTier_LowestFirst(ratio, riskPercent) ==
    IF Ge(ratio, Q(3, 2)) /\ Le(riskPercent, Num(5))
    THEN [min |-> Num(1), max |-> Num(2), recommended |-> Num(1),
          level |-> "very conservative"]
    ELSE IF Ge(ratio, Num(2)) /\ Le(riskPercent, Num(3))
    THEN [min |-> Num(2), max |-> Num(3), recommended |-> Num(2),
          level |-> "conservative"]
    ELSE IF Ge(ratio, Num(3)) /\ Le(riskPercent, Num(2))
    THEN [min |-> Num(3), max |-> Num(5), recommended |-> Num(3),
          level |-> "moderate"]
    ELSE [min |-> Num(1), max |-> Num(1), recommended |-> Num(1),
          level |-> "spot only"]

\* the if / else-if chain of getLeverageRecommendation
recommendationTier(ratio, riskPercent) ==
    IF Ge(ratio, Num(3)) /\ Le(riskPercent, Num(2))
    THEN [min |-> Num(3), max |-> Num(5), recommended |-> Num(3),
          level |-> "moderate"]
    ELSE IF Ge(ratio, Num(2)) /\ Le(riskPercent, Num(3))
    THEN [min |-> Num(2), max |-> Num(3), recommended |-> Num(2),
          level |-> "conservative"]
    ELSE IF Ge(ratio, Q(3, 2)) /\ Le(riskPercent, Num(5))
    THEN [min |-> Num(1), max |-> Num(2), recommended |-> Num(1),
          level |-> "very conservative"]
    ELSE [min |-> Num(1), max |-> Num(1), recommended |-> Num(1),
          level |-> "spot only"]

getLeverageRecommendation(ratio, riskPerCoin, entry) ==
    recommendationTier(ratio, Mul(Div(riskPerCoin, entry), Num(100)))

\* the directional validity check of the variant
manualIsValidOf(entry, stop, target, posType) ==
    IF posType = "long"
    THEN Lt(stop, entry) /\ Gt(target, entry)
    ELSE Gt(stop, entry) /\ Lt(target, entry)

\* the sizing fields once maxPositionSize and recommendedAssets are known
manualSizingFields(maxRiskAmount, maxPositionSize, recommendedAssets, riskPerCoin, rewardPerCoin) ==
    [maxRiskAmount     |-> maxRiskAmount,
     maxPositionSize   |-> maxPositionSize,
     recommendedAssets |-> recommendedAssets,
     potentialLoss     |-> Mul(recommendedAssets, riskPerCoin),
     potentialProfit   |-> Mul(recommendedAssets, rewardPerCoin),
     allocatedAmount   |-> maxPositionSize]

\* the `if (capital) { ... }` block: recommendedAssets =
\* (maxPositionSize * lev) / entry, lev being the leverage the user typed
manualSizingOf(entry, capital, riskPct, allocation, lev, riskPerCoin, rewardPerCoin) ==
    manualSizingFields(Div(Mul(capital, riskPct), Num(100)),
                       Div(Mul(capital, allocation), Num(100)),
                       Div(Mul(Div(Mul(capital, allocation), Num(100)), lev), entry),
                       riskPerCoin, rewardPerCoin)

\* the initial values of the sizing fields (capital absent)
manualNoSizing ==
    [maxRiskAmount     |-> Num(0),
     maxPositionSize   |-> Num(0),
     recommendedAssets |-> Num(0),
     potentialLoss     |-> Num(0),
     potentialProfit   |-> Num(0),
     allocatedAmount   |-> Num(0)]

\* the object returned for a valid trade
manualOkResult(entry, riskPerCoin, rewardPerCoin, sizing) ==
    [riskPerCoin            |-> riskPerCoin,
     rewardPerCoin          |-> rewardPerCoin,
     ratio                  |-> Div(rewardPerCoin, riskPerCoin),
     maxRiskAmount          |-> sizing.maxRiskAmount,
     maxPositionSize        |-> sizing.maxPositionSize,
     recommendedAssets      |-> sizing.recommendedAssets,
     potentialLoss          |-> sizing.potentialLoss,
     potentialProfit        |-> sizing.potentialProfit,
     allocatedAmount        |-> sizing.allocatedAmount,
     leverageRecommendation |->
         getLeverageRecommendation(Div(rewardPerCoin, riskPerCoin), riskPerCoin,
                                   entry),
     error                  |-> FALSE]

\* calculateRiskReward of the variant after the parseFloat calls
manualRiskRewardOf(entry, stop, target, capital, riskPct, allocation, lev, riskPerCoin, rewardPerCoin, posType) ==
    IF ~Truthy(entry) \/ ~Truthy(stop) \/ ~Truthy(target) THEN NULL
    ELSE IF \/ ~manualIsValidOf(entry, stop, target, posType)
            \/ Le(riskPerCoin, Num(0))
            \/ Le(rewardPerCoin, Num(0))
    THEN [error |-> TRUE, positionType |-> posType]
    ELSE manualOkResult(entry, riskPerCoin, rewardPerCoin,
                        IF Truthy(capital)
                        THEN manualSizingOf(entry, capital, riskPct, allocation,
                                            lev, riskPerCoin, rewardPerCoin)
                        ELSE manualNoSizing)

\* mutant: the distances of a long used for shorts as well
manualDistancesOf_ShortAsLong(entry, stop, target, capital, riskPct, allocation, lev, posType) ==
    manualRiskRewardOf(entry, stop, target, capital, riskPct, allocation, lev,
                       Sub(entry, stop), Sub(target, entry), posType)

\* the signed distances of the variant's calculateRiskReward
manualDistancesOf(entry, stop, target, capital, riskPct, allocation, lev, posType) ==
    IF posType = "long"
    THEN manualRiskRewardOf(entry, stop, target, capital, riskPct, allocation, lev,
                            Sub(entry, stop), Sub(target, entry), posType)
    ELSE manualRiskRewardOf(entry, stop, target, capital, riskPct, allocation, lev,
                            Sub(stop, entry), Sub(entry, target), posType)

\* calculateRiskReward() of the variant evaluated on the React state st
calculateRiskRewardManual(st) ==
    manualDistancesOf(parseFloat(st.entryPrice), parseFloat(st.stopLoss),
                      parseFloat(st.takeProfit), parseFloat(st.totalCapital),
                      parseFloat(st.riskPercentage), parseFloat(st.assetAllocation),
                      parseFloat(st.leverage), st.positionType)

\* `const results = calculateRiskReward()` of the variant: recomputed from the
\* state on every render
manualResults == calculateRiskRewardManual(State)

-----------------------------------------------------------------------------
(* Form input: the texts a user types *)

DigitChar(i) ==
    CASE i = 0 -> "0" [] i = 1 -> "1" [] i = 2 -> "2" [] i = 3 -> "3"
      [] i = 4 -> "4" [] i = 5 -> "5" [] i = 6 -> "6" [] i = 7 -> "7"
      [] i = 8 -> "8" [] i = 9 -> "9"

\* the decimal text of a natural number, as a user types it
RECURSIVE ToText(_)
ToText(i) ==
    IF i < 10 THEN <<DigitChar(i)>>
    ELSE Append(ToText(i \div 10), DigitChar(i % 10))

\* the texts of the integers lo, lo + step, ... not above hi
TextsOf(lo, hi, step) == {ToText(lo + step * k) : k \in 0 .. ((hi - lo) \div step)}

Empty == <<>>

-----------------------------------------------------------------------------
(* Initial state: the useState initial values and the first render *)

InitState ==
    /\ entryPrice = Empty
    /\ stopLoss = Empty
    /\ takeProfit = Empty
    /\ totalCapital = Empty
    /\ riskPercentage = <<"1">>
    /\ assetAllocation = <<"1", "0">>
    /\ maxLeverage = <<"7", "5">>
    /\ positionType = "long"
    /\ exchangeRate = Q(5852, 100)
    /\ isLoadingRate = FALSE
    /\ enablePartialTP = TRUE
    /\ partialTP1Percent = <<"5", "0">>
    /\ partialTP2Percent = <<"3", "0">>
    /\ leverage = <<"1">>
    /\ rendered = State
    /\ fetchRuns = <<>>
    /\ lastFetch = [returned |-> FALSE, api |-> 0, failed |-> {},
                    rateAtStart |-> exchangeRate, rate |-> NULL]

\* the auto-leverage screen after its first render
Init == InitState /\ screen = "auto"

\* the manual-leverage variant after its first render
InitManual == InitState /\ screen = "manual"

\* a component is mounted: its handlers can fire and its state can change
Mounted == screen # "none"

\* entry, stop, target and capital as calculateRiskReward parses them from
\* the state st
parsedFields(st) ==
    [i \in 1 .. 4 |->
        parseFloat(<<st.entryPrice, st.stopLoss, st.takeProfit,
                     st.totalCapital>>[i])]

\* calculateRiskReward returns an object without error: the three prices
\* are truthy, ordered as the position type asks, and apart
validTrade(entry, stop, target, posType) ==
    /\ Truthy(entry) /\ Truthy(stop) /\ Truthy(target)
    /\ isValidOf(entry, stop, target, posType)
    /\ ~Le(IF posType = "long" THEN Sub(entry, stop) ELSE Sub(stop, entry), Num(0))
    /\ ~Le(IF posType = "long" THEN Sub(target, entry) ELSE Sub(entry, target), Num(0))

\* the position sizing card reads results.leverageInfo.riskPercentageMove
\* whenever the capital text is not empty; leverageInfo is null when the
\* capital parsed from it is falsy (0 or NaN), and the read throws
positionSizingThrows(f, posType) ==
    ~Truthy(f[4]) /\ validTrade(f[1], f[2], f[3], posType)

\* the render of the auto-leverage screen on the state st throws a TypeError:
\* `results && !results.error` and `totalCapital` hold and the position
\* sizing card is rendered without a leverageInfo
renderThrows(st) ==
    st.totalCapital # Empty /\ positionSizingThrows(parsedFields(st), st.positionType)

\* mutant: a result once computed is kept (a cache that is never invalidated)
Render_KeepsFirstResult ==
    /\ rendered' = IF results # NULL THEN rendered ELSE State'
    /\ screen' = IF screen = "auto" /\ renderThrows(State') THEN "none" ELSE screen

\* every state change re-renders: the component function runs again and
\* closes over the new state.  When the render throws, React unmounts the
\* component; after that there is no state to change and no render
Render ==
    /\ rendered' = IF Mounted THEN State' ELSE rendered
    /\ screen' = IF screen = "auto" /\ renderThrows(State') THEN "none" ELSE screen

\* a state update of a component that is no longer mounted is dropped
setExchangeRate(rate) == exchangeRate' = IF Mounted THEN rate ELSE exchangeRate

setIsLoadingRate(b) == isLoadingRate' = IF Mounted THEN b ELSE isLoadingRate

-----------------------------------------------------------------------------
(* Event handlers: each sets one state cell and re-renders.  They belong to *)
(* the elements of the rendered tree and fire while a component is mounted  *)

SetEntryPrice(v) ==
    /\ Mounted
    /\ entryPrice' = v
    /\ UNCHANGED <<stopLoss, takeProfit, totalCapital, riskPercentage,
                   assetAllocation, maxLeverage, positionType, exchangeRate,
                   isLoadingRate, enablePartialTP, partialTP1Percent,
                   partialTP2Percent>>
    /\ UNCHANGED <<fetchVars, leverage>>
    /\ Render

SetStopLoss(v) ==
    /\ Mounted
    /\ stopLoss' = v
    /\ UNCHANGED <<entryPrice, takeProfit, totalCapital, riskPercentage,
                   assetAllocation, maxLeverage, positionType, exchangeRate,
                   isLoadingRate, enablePartialTP, partialTP1Percent,
                   partialTP2Percent>>
    /\ UNCHANGED <<fetchVars, leverage>>
    /\ Render

SetTakeProfit(v) ==
    /\ Mounted
    /\ takeProfit' = v
    /\ UNCHANGED <<entryPrice, stopLoss, totalCapital, riskPercentage,
                   assetAllocation, maxLeverage, positionType, exchangeRate,
                   isLoadingRate, enablePartialTP, partialTP1Percent,
                   partialTP2Percent>>
    /\ UNCHANGED <<fetchVars, leverage>>
    /\ Render

SetTotalCapital(v) ==
    /\ Mounted
    /\ totalCapital' = v
    /\ UNCHANGED <<entryPrice, stopLoss, takeProfit, riskPercentage,
                   assetAllocation, maxLeverage, positionType, exchangeRate,
                   isLoadingRate, enablePartialTP, partialTP1Percent,
                   partialTP2Percent>>
    /\ UNCHANGED <<fetchVars, leverage>>
    /\ Render

\* the auto-leverage screen has the two risk buttons, setRiskPercentage("1")
\* and setRiskPercentage("2"); the manual-leverage screen has a field that
\* stores whatever text is typed
SetRiskPercentage(v) ==
    /\ Mounted
    /\ screen = "auto" => v \in {<<"1">>, <<"2">>}
    /\ riskPercentage' = v
    /\ UNCHANGED <<entryPrice, stopLoss, takeProfit, totalCapital,
                   assetAllocation, maxLeverage, positionType, exchangeRate,
                   isLoadingRate, enablePartialTP, partialTP1Percent,
                   partialTP2Percent>>
    /\ UNCHANGED <<fetchVars, leverage>>
    /\ Render

SetAssetAllocation(v) ==
    /\ Mounted
    /\ assetAllocation' = v
    /\ UNCHANGED <<entryPrice, stopLoss, takeProfit, totalCapital,
                   riskPercentage, maxLeverage, positionType, exchangeRate,
                   isLoadingRate, enablePartialTP, partialTP1Percent,
                   partialTP2Percent>>
    /\ UNCHANGED <<fetchVars, leverage>>
    /\ Render

\* the Max Leverage field, which only the auto-leverage screen has
SetMaxLeverage(v) ==
    /\ screen = "auto"
    /\ maxLeverage' = v
    /\ UNCHANGED <<entryPrice, stopLoss, takeProfit, totalCapital,
                   riskPercentage, assetAllocation, positionType, exchangeRate,
                   isLoadingRate, enablePartialTP, partialTP1Percent,
                   partialTP2Percent>>
    /\ UNCHANGED <<fetchVars, leverage>>
    /\ Render

\* the LONG and SHORT buttons
SetPositionType(t) ==
    /\ Mounted
    /\ t \in {"long", "short"}
    /\ positionType' = t
    /\ UNCHANGED <<entryPrice, stopLoss, takeProfit, totalCapital,
                   riskPercentage, assetAllocation, maxLeverage, exchangeRate,
                   isLoadingRate, enablePartialTP, partialTP1Percent,
                   partialTP2Percent>>
    /\ UNCHANGED <<fetchVars, leverage>>
    /\ Render

\* setEnablePartialTP(!enablePartialTP), the switch of the auto-leverage
\* screen
ToggleEnablePartialTP ==
    /\ screen = "auto"
    /\ enablePartialTP' = ~enablePartialTP
    /\ UNCHANGED <<entryPrice, stopLoss, takeProfit, totalCapital,
                   riskPercentage, assetAllocation, maxLeverage, positionType,
                   exchangeRate, isLoadingRate, partialTP1Percent,
                   partialTP2Percent>>
    /\ UNCHANGED <<fetchVars, leverage>>
    /\ Render

\* the two percentage fields are rendered on the auto-leverage screen while
\* enablePartialTP is on
SetPartialTP1Percent(v) ==
    /\ screen = "auto"
    /\ enablePartialTP
    /\ partialTP1Percent' = v
    /\ UNCHANGED <<entryPrice, stopLoss, takeProfit, totalCapital,
                   riskPercentage, assetAllocation, maxLeverage, positionType,
                   exchangeRate, isLoadingRate, enablePartialTP,
                   partialTP2Percent>>
    /\ UNCHANGED <<fetchVars, leverage>>
    /\ Render

SetPartialTP2Percent(v) ==
    /\ screen = "auto"
    /\ enablePartialTP
    /\ partialTP2Percent' = v
    /\ UNCHANGED <<entryPrice, stopLoss, takeProfit, totalCapital,
                   riskPercentage, assetAllocation, maxLeverage, positionType,
                   exchangeRate, isLoadingRate, enablePartialTP,
                   partialTP1Percent>>
    /\ UNCHANGED <<fetchVars, leverage>>
    /\ Render

\* the leverage field of the manual-leverage variant
SetLeverage(v) ==
    /\ screen = "manual"
    /\ leverage' = v
    /\ UNCHANGED <<entryPrice, stopLoss, takeProfit, totalCapital,
                   riskPercentage, assetAllocation, maxLeverage, positionType,
                   exchangeRate, isLoadingRate, enablePartialTP,
                   partialTP1Percent, partialTP2Percent>>
    /\ UNCHANGED fetchVars
    /\ Render

-----------------------------------------------------------------------------
(* fetchExchangeRate: an async function.  A call in flight is a record       *)
(*   api         index in `apis` of the source whose answer is awaited       *)
(*   awaiting    "fetch" (await fetch(apiUrl)) or "json" (await              *)
(*               response.json())                                            *)
(*   failed      the sources this call has given up on                       *)
(*   rateAtStart exchangeRate when the call began                            *)
(*   stored      the rate this call has stored last (NULL: none so far)      *)
(* When a call returns, lastFetch keeps api, failed and rateAtStart of the   *)
(* call together with `rate`, the rate it stored last (NULL when it stored   *)
(* none).                                                                    *)
(* Between two awaits the function runs without interruption, so each        *)
(* action below is one such stretch.  A response body is a record            *)
(* [hasRates, PHP]: whether `data.rates` is truthy, and `data.rates.PHP`: a  *)
(* number, a text, a boolean, or NULL (the key is absent or holds null).     *)

\* the length of the `apis` array
NumApis == 3

\* let rate = null; if (data.rates && data.rates.PHP) rate = data.rates.PHP
rateOf(data) ==
    IF data.hasRates /\ ToBoolean(data.PHP) THEN data.PHP ELSE NULL

\* if (rate && rate > 0)
usableRate(rate) == ToBoolean(rate) /\ Gt(ToNumber(rate), Num(0))

\* rate.toFixed(4) throws a TypeError: only a number has the method
toFixedThrows(rate) == ~IsNumber(rate)

\* the sequence q without its k-th element
RemoveAt(q, k) == SubSeq(q, 1, k - 1) \o SubSeq(q, k + 1, Len(q))

\* The formatter rounds the shortest decimal text that denotes x: the text
\* of fewest digits among those nearer to x than to any other double, and
\* of these the one nearest to x.  Halves go up.
\* The number n cents
FromCents(n) == Div(Normal(1, n, 0), Num(100))

\* the double nearest to (10 * n + 5) / 1000, the half above n cents
CentsTie(n) ==
    BigRatio(1, BigSum(BigTimes(BigOf(n, 4), 10, 4), BigOf(<<5>>, 4), 4),
             BigOf(<<1000>>, 4), 0, 4)

\* p / 2^k is at most half a thousandth below the half above its integer
\* part: its fraction is from 9/20 on.  Doubles less than a thousandth
\* apart (k > 7) are, when the half denotes them
NearTie(p, k) == k > 7 \/ 20 * (p[1] % 2^k) >= 9 * 2^k

\* x in cents, for 0 < x < 2^46 and n the whole cents of x: p is
\* 25 * mantissa as limbs, so that 100 * x = p / 2^k.  A text of n cents
\* that denotes x is the shortest one.  Otherwise x goes up from the half
\* on, and also when the half denotes x and is the text of three fraction
\* digits nearest to x
CentsRounded(x, p, k, n) ==
    Bump(n, \/ BitAt(p, k - 1) = 1
            \/ FromCents(n) # x /\ NearTie(p, k) /\ CentsTie(n) = x)

CentsOf(x, p, k) == CentsRounded(x, p, k, <<Window(p, k), Window(p, k + HalfBits)>>)

ToCents(x) ==
    CentsOf(x, DigitTimes(MulLimbs(25, x.l), MulLimbs(25, x.h)), -(x.e + 2))

\* the number that x.toLocaleString("en-PH", {minimumFractionDigits: 2,
\* maximumFractionDigits: 2}) prints.  From 2^46 on the doubles are more
\* than a cent apart and the text denotes x itself
TwoFractionDigits(x) ==
    IF IsNaN(x) \/ IsInf(x) \/ IsZero(x) \/ x.e >= -6 THEN x
    ELSE WithSign(x.s, FromCents(ToCents(MathAbs(x))))

\* formatPHP(usdAmount): the peso amount shown next to a dollar amount.  The
\* text is modelled by the number it prints: usdAmount * exchangeRate to two
\* fraction digits; "₱0.00" for a falsy amount.  rate is the exchangeRate of
\* the render, which * converts to a number.
formatPHP(usdAmount, rate) ==
    IF ~Truthy(usdAmount) THEN Num(0)
    ELSE TwoFractionDigits(Mul(usdAmount, ToNumber(rate)))

\* the form cells, which no step of fetchExchangeRate touches
formVars ==
    <<entryPrice, stopLoss, takeProfit, totalCapital, riskPercentage,
      assetAllocation, maxLeverage, positionType, enablePartialTP,
      partialTP1Percent, partialTP2Percent, leverage>>

\* mutant: the refresh button is never disabled
RefreshDisabled_Never == FALSE

\* disabled={isLoadingRate} on the refresh button
RefreshDisabled == isLoadingRate

\* the call starts (mount effect, or a click on the refresh button, which is
\* disabled while isLoadingRate): setIsLoadingRate(true), then the first
\* source is contacted
StartFetch ==
    /\ Mounted
    /\ ~RefreshDisabled
    /\ isLoadingRate' = TRUE
    /\ fetchRuns' = Append(fetchRuns, [api |-> 1, awaiting |-> "fetch",
                                       failed |-> {}, rateAtStart |-> exchangeRate,
                                       stored |-> NULL])
    /\ UNCHANGED <<formVars, exchangeRate, lastFetch>>
    /\ Render

\* the source the loop turns to after the current one
nextApi(run) == run.api + 1

\* mutant: no `finally`: a call that runs out of sources leaves the flag set
GiveUp_KeepsLoading(k) ==
    /\ fetchRuns' = RemoveAt(fetchRuns, k)
    /\ lastFetch' = [returned |-> TRUE, api |-> fetchRuns[k].api,
                     failed |-> fetchRuns[k].failed \cup {fetchRuns[k].api},
                     rateAtStart |-> fetchRuns[k].rateAtStart,
                     rate |-> fetchRuns[k].stored]
    /\ UNCHANGED <<formVars, exchangeRate, isLoadingRate>>
    /\ Render

\* call k leaves the loop at its end: `finally` resets isLoadingRate
GiveUp(k) ==
    /\ fetchRuns' = RemoveAt(fetchRuns, k)
    /\ lastFetch' = [returned |-> TRUE, api |-> fetchRuns[k].api,
                     failed |-> fetchRuns[k].failed \cup {fetchRuns[k].api},
                     rateAtStart |-> fetchRuns[k].rateAtStart,
                     rate |-> fetchRuns[k].stored]
    /\ setIsLoadingRate(FALSE)
    /\ UNCHANGED <<formVars, exchangeRate>>
    /\ Render

\* call k is done with its current source without a usable rate (`continue`
\* in the catch block, or the end of the loop body): the next source is
\* contacted, or the loop is over
TryNext(k) ==
    IF fetchRuns[k].api < NumApis
    THEN /\ fetchRuns' = [fetchRuns EXCEPT
                            ![k] = [api |-> nextApi(@), awaiting |-> "fetch",
                                    failed |-> @.failed \cup {@.api},
                                    rateAtStart |-> @.rateAtStart,
                                    stored |-> @.stored]]
         /\ UNCHANGED <<formVars, exchangeRate, isLoadingRate, lastFetch>>
         /\ Render
    ELSE GiveUp(k)

\* `await fetch(apiUrl)` of call k settles: with a response, or by throwing
FetchSettles(k, ok) ==
    /\ k \in 1..Len(fetchRuns)
    /\ fetchRuns[k].awaiting = "fetch"
    /\ IF ok
       THEN /\ fetchRuns' = [fetchRuns EXCEPT ![k].awaiting = "json"]
            /\ UNCHANGED <<formVars, exchangeRate, isLoadingRate, lastFetch>>
            /\ Render
       ELSE TryNext(k)

\* `await response.json()` of call k throws
JsonThrows(k) ==
    /\ k \in 1..Len(fetchRuns)
    /\ fetchRuns[k].awaiting = "json"
    /\ TryNext(k)

\* setExchangeRate(rate) for a rate that is no number: the logging that
\* follows throws at rate.toFixed, the catch block takes over and the loop
\* goes on with the next source, or ends
StoreAndThrow(k, rate) ==
    /\ setExchangeRate(rate)
    /\ IF fetchRuns[k].api < NumApis
       THEN /\ fetchRuns' = [fetchRuns EXCEPT
                               ![k] = [api |-> nextApi(@), awaiting |-> "fetch",
                                       failed |-> @.failed \cup {@.api},
                                       rateAtStart |-> @.rateAtStart,
                                       stored |-> rate]]
            /\ UNCHANGED <<formVars, isLoadingRate, lastFetch>>
       ELSE /\ fetchRuns' = RemoveAt(fetchRuns, k)
            /\ lastFetch' = [returned |-> TRUE, api |-> fetchRuns[k].api,
                             failed |-> fetchRuns[k].failed \cup {fetchRuns[k].api},
                             rateAtStart |-> fetchRuns[k].rateAtStart,
                             rate |-> rate]
            /\ setIsLoadingRate(FALSE)
            /\ UNCHANGED formVars
    /\ Render

\* setExchangeRate(rate) for a number: the rate is logged, the loop is left
\* (`break`) and `finally` resets isLoadingRate
StoreAndReturn(k, rate) ==
    /\ setExchangeRate(rate)
    /\ fetchRuns' = RemoveAt(fetchRuns, k)
    /\ lastFetch' = [returned |-> TRUE, api |-> fetchRuns[k].api,
                     failed |-> fetchRuns[k].failed,
                     rateAtStart |-> fetchRuns[k].rateAtStart,
                     rate |-> rate]
    /\ setIsLoadingRate(FALSE)
    /\ UNCHANGED formVars
    /\ Render

\* `await response.json()` of call k yields data: a rate that passes
\* `rate && rate > 0` is stored; the other ones leave the source behind
JsonSettles(k, data) ==
    /\ k \in 1..Len(fetchRuns)
    /\ fetchRuns[k].awaiting = "json"
    /\ IF ~usableRate(rateOf(data)) THEN TryNext(k)
       ELSE IF toFixedThrows(rateOf(data)) THEN StoreAndThrow(k, rateOf(data))
       ELSE StoreAndReturn(k, rateOf(data))

-----------------------------------------------------------------------------
(* Spec: the whole form, each field over a small set of texts *)

FormPrices ==
    {Empty, <<"9", "5">>, <<"9", "9", ".", "9">>, <<"1", "0", "0">>,
     <<"1", "1", "5">>}

FormCapitals == {Empty, <<"1", "0", "0", "0", "0">>}

\* the Allocation and Max Leverage fields, also emptied
FormAllocations == {Empty, <<"1", "0">>, <<"2", "5">>}

FormMaxLeverages == {Empty, <<"7", "5">>, <<"3">>}

FormPercents == {<<"5", "0">>, <<"3", "0">>}

Next ==
    \/ \E v \in FormPrices : SetEntryPrice(v)
    \/ \E v \in FormPrices : SetStopLoss(v)
    \/ \E v \in FormPrices : SetTakeProfit(v)
    \/ \E v \in FormCapitals : SetTotalCapital(v)
    \/ \E v \in {<<"1">>, <<"2">>} : SetRiskPercentage(v)
    \/ \E v \in FormAllocations : SetAssetAllocation(v)
    \/ \E v \in FormMaxLeverages : SetMaxLeverage(v)
    \/ \E t \in {"long", "short"} : SetPositionType(t)
    \/ ToggleEnablePartialTP
    \/ \E v \in FormPercents : SetPartialTP1Percent(v)
    \/ \E v \in FormPercents : SetPartialTP2Percent(v)

Spec == Init /\ [][Next]_vars

-----------------------------------------------------------------------------
(* Shorthands for the parsed fields of the current state *)

entry == parseFloat(entryPrice)

stop == parseFloat(stopLoss)

target == parseFloat(takeProfit)

capital == parseFloat(totalCapital)

riskPct == parseFloat(riskPercentage)

allocation == parseFloat(assetAllocation)

maxLev == parseFloat(maxLeverage)

\* the last render returned a result object for a valid trade
ValidTrade == results # NULL /\ ~results.error

\* ... and the sizing block ran (capital present)
Sized == ValidTrade /\ results.leverageInfo # NULL

\* 2^-48: sixteen units in the last place of a double
RoundingSlack == Mul(Q(1, 2^24), Q(1, 2^24))

\* x is a normal double: a number, finite, not zero and not subnormal, so
\* that the operation that produced it rounded by at most 2^-53 of it
IsNormal(x) == x.s # 0 /\ x.h # 0 /\ x.e >= MinExponent

\* x and y are equal up to the rounding of a few floating-point operations:
\* they differ by at most 2^-48 of the larger magnitude
Close(x, y) ==
    Le(MathAbs(Sub(x, y)), Mul(RoundingSlack, MathMax(MathAbs(x), MathAbs(y))))

\* the React state with other texts in the three price fields
WithPrices(e, s, t) ==
    [State EXCEPT !.entryPrice = e, !.stopLoss = s, !.takeProfit = t]

-----------------------------------------------------------------------------
(* SpecValidation: the three price fields and the direction buttons *)

MaxPriceSteps == 3

\* 90, 100, ... in steps of 10, a price with a fraction, and an empty field
ValidationPrices ==
    TextsOf(90, 90 + 10 * MaxPriceSteps, 10)
        \cup {<<"9", "9", ".", "5">>, <<"1", "0", "0", ".", "0">>, Empty}

NextValidation ==
    \/ \E v \in ValidationPrices : SetEntryPrice(v)
    \/ \E v \in ValidationPrices : SetStopLoss(v)
    \/ \E v \in ValidationPrices : SetTakeProfit(v)
    \/ \E t \in {"long", "short"} : SetPositionType(t)

SpecValidation == Init /\ [][NextValidation]_vars

\* the ordering that matches the position type
OrderingMatches ==
    IF positionType = "long"
    THEN Lt(stop, entry) /\ Lt(entry, target)
    ELSE Lt(target, entry) /\ Lt(entry, stop)

\* C1: for positive entry, stop and target the result is a non-error result
\* exactly when the ordering matches the position type (long: stop < entry <
\* target; short: target < entry < stop); every other ordering, equal prices
\* included, gives exactly the error object {error: true, positionType}.
C1_ErrorIffOrderingWrong ==
    (Gt(entry, Num(0)) /\ Gt(stop, Num(0)) /\ Gt(target, Num(0))) =>
        /\ results # NULL
        /\ results.error = ~OrderingMatches
        /\ ~OrderingMatches => results = [error |-> TRUE, positionType |-> positionType]

\* the short of the spec's scenario: entry=100, stop=90, target=120
C1_Witness ==
    /\ positionType = "short"
    /\ entryPrice = <<"1", "0", "0">>
    /\ stopLoss = <<"9", "0">>
    /\ takeProfit = <<"1", "2", "0">>
    /\ results = [error |-> TRUE, positionType |-> "short"]

-----------------------------------------------------------------------------
(* SpecScale: small prices that contain proportional triples, among them     *)
(* decimal fractions that no double holds exactly, and an entry price of     *)
(* seventeen digits                                                          *)

MaxScalePrice == 4

\* 1 .. MaxScalePrice and the fractional prices 0.1, 0.2, 0.3, 0.5 and 1.5
ScalePrices ==
    TextsOf(1, MaxScalePrice, 1)
        \cup {<<"0", ".", "1">>, <<"0", ".", "2">>, <<"0", ".", "3">>,
              <<"0", ".", "5">>, <<"1", ".", "5">>}

\* 1.0000000000000001, which no double tells from 1, while ten times it is
\* another double than 10
LongPrice ==
    <<"1", ".", "0", "0", "0", "0", "0", "0", "0", "0", "0", "0", "0", "0", "0",
      "0", "0", "1">>

NextScale ==
    \/ \E v \in ScalePrices \cup {LongPrice} : SetEntryPrice(v)
    \/ \E v \in ScalePrices : SetStopLoss(v)
    \/ \E v \in ScalePrices : SetTakeProfit(v)
    \/ \E t \in {"long", "short"} : SetPositionType(t)

SpecScale == Init /\ [][NextScale]_vars

\* the results r and scaled have the same outcome and, if valid, one ratio
SameOutcomeAndRatio(r, scaled) ==
    /\ scaled # NULL
    /\ scaled.error = r.error
    /\ ~r.error => EqNum(scaled.ratio, r.ratio)

\* the fraction of the ratio by which rounding can move the ratio of r: the
\* prices are rounded when parsed, and the two subtractions magnify that
RatioSlack(r) ==
    Mul(Mul(Q(1, 2^24), Q(1, 2^27)),
        Add(Num(3), Add(Div(Add(target, entry), r.rewardPerCoin),
                        Div(Add(entry, stop), r.riskPerCoin))))

\* the results r and scaled have the same outcome and, if valid, ratios that
\* are equal (exact) or differ by rounding only
SameOutcomeNearRatio(r, scaled, exact) ==
    /\ scaled # NULL
    /\ scaled.error = r.error
    /\ ~r.error =>
           /\ Le(MathAbs(Sub(scaled.ratio, r.ratio)), Mul(RatioSlack(r), r.ratio))
           /\ exact => EqNum(scaled.ratio, r.ratio)

\* the integer that a double of integral value below 2^26 denotes
IntOf(x) == IF IsZero(x) THEN 0 ELSE x.s * (x.h \div 2^(-(x.e + HalfBits)))

\* ten times the decimal number a price text denotes (0 for the empty field):
\* an integer, the texts having one fraction digit at most
TenthsOf ==
    [t \in ScalePrices \cup {Empty} |->
        IF t = Empty THEN 0 ELSE IntOf(MathRound(Mul(parseFloat(t), Num(10))))]

\* the decimal numbers of the texts e2 and p2 are those of the entry field
\* and of the field holding p, times one positive constant
Proportional(e2, p2, p) ==
    /\ entryPrice \in ScalePrices
    /\ TenthsOf[e2] > 0
    /\ TenthsOf[entryPrice] > 0
    /\ TenthsOf[e2] * TenthsOf[p] = TenthsOf[p2] * TenthsOf[entryPrice]

\* ... and that constant is 2, 4, 1/2 or 1/4
ScaledByPowerOfTwo(e2) ==
    \E k \in {2, 4} : \/ TenthsOf[e2] = k * TenthsOf[entryPrice]
                      \/ k * TenthsOf[e2] = TenthsOf[entryPrice]

\* exponent parts that multiply a decimal text by 10, 1/10, 10^25, 10^-25,
\* 10^309 and 10^-323: the last two take prices to Infinity, and to zero or
\* among the subnormal doubles
ScaleExponents ==
    {<<"e", "1">>, <<"e", "-", "1">>, <<"e", "2", "5">>, <<"e", "-", "2", "5">>,
     <<"e", "3", "0", "9">>, <<"e", "-", "3", "2", "3">>}

\* the React state with the three prices multiplied by the power of ten x
TimesPowerOfTen(x) ==
    WithPrices(entryPrice \o x, stopLoss \o x, takeProfit \o x)

\* the states whose prices are those of the form times one positive
\* constant, each with whether the constant is a power of two
ScaledStates ==
    {[state |-> WithPrices(e2, s2, t2), exact |-> ScaledByPowerOfTwo(e2)] :
        <<e2, s2, t2>> \in {p \in ScalePrices \X ScalePrices \X ScalePrices :
                               /\ Proportional(p[1], p[2], stopLoss)
                               /\ Proportional(p[1], p[3], takeProfit)}}
        \cup {[state |-> TimesPowerOfTen(x), exact |-> FALSE] : x \in ScaleExponents}

\* the digits of the text t before its exponent part
MantissaDigits(t) ==
    SelectSeq(SubSeq(t, 1, CHOOSE i \in 0 .. Len(t) :
                               /\ \A j \in 1 .. i : t[j] \notin {"e", "E"}
                               /\ i < Len(t) => t[i + 1] \in {"e", "E"}),
              LAMBDA c : c \in DigitChars)

\* the number of zeros at the end of the digits ds
RECURSIVE ZerosAtEnd(_)
ZerosAtEnd(ds) ==
    IF ds # <<>> /\ ds[Len(ds)] = "0"
    THEN 1 + ZerosAtEnd(SubSeq(ds, 1, Len(ds) - 1)) ELSE 0

\* the number of significant digits of the decimal text t: its digits from
\* the first to the last that is not a zero
SignificantDigits(t) ==
    IF ZeroRun(MantissaDigits(t), 1) = Len(MantissaDigits(t)) THEN 0
    ELSE Len(MantissaDigits(t)) - ZeroRun(MantissaDigits(t), 1)
         - ZerosAtEnd(MantissaDigits(t))

\* the price texts of the specification, and their products
ScaleTexts ==
    {t \o x : t \in ScalePrices \cup {LongPrice}, x \in ScaleExponents \cup {<<>>}}

\* those that are decimal numbers of at most ExactDigits significant digits
\* and parse to normal doubles
PlainTexts ==
    {t \in ScaleTexts : SignificantDigits(t) <= ExactDigits /\ IsNormal(parseFloat(t))}

\* the three prices of state st are such texts
PlainPrices(st) == {st.entryPrice, st.stopLoss, st.takeProfit} \subseteq PlainTexts

\* the result r of the form and that of every state with its prices times one
\* constant have the same outcome and ratio
ScaleInvariant(r) ==
    \A sc \in ScaledStates : SameOutcomeAndRatio(r, calculateRiskReward(sc.state))

\* ... have the same outcome and nearly the same ratio, for the scaled states
\* with plain prices
ScaleInvariantNearly(r) ==
    \A sc \in ScaledStates :
        PlainPrices(sc.state) =>
            SameOutcomeNearRatio(r, calculateRiskReward(sc.state), sc.exact)

\* C9 (as claimed): ratio is scale-invariant: when entry, stop and target are
\* all multiplied by one positive constant the evaluation has the same
\* outcome (error or not) and, for a valid trade, the same ratio.
C9_Original ==
    results # NULL => ScaleInvariant(results)

\* C9 (amended): ratio is scale-invariant up to floating-point rounding and
\* within the range and precision of doubles: when entry, stop and target
\* are decimal numbers of at most 15 significant digits, all multiplied by
\* one positive constant that leaves them such numbers, and the three prices
\* and the three products parse to normal doubles (finite, not zero, not
\* subnormal), the evaluation has the same outcome (error or not) and, for a
\* valid trade, the same ratio up to rounding: the two ratios differ by at
\* most the fraction
\* 2^-51 * (3 + (target + entry) / rewardPerCoin + (entry + stop) / riskPerCoin)
\* of the ratio, and are equal when the constant is a power of two.  Beyond
\* these conditions the outcome itself can change: products that overflow to
\* Infinity or underflow to zero or to subnormal doubles, and prices of more
\* than 15 digits that one scale tells apart and another does not.
C9_RatioScaleInvariant ==
    (results # NULL /\ PlainPrices(State)) => ScaleInvariantNearly(results)

\* the valid long 0.2 / 0.1 / 0.3, whose ratio is 0.9999999999999998, while
\* its tenfold 2 / 1 / 3 has the ratio 1
C9_Witness ==
    /\ ValidTrade
    /\ entryPrice = <<"0", ".", "2">>
    /\ stopLoss = <<"0", ".", "1">>
    /\ takeProfit = <<"0", ".", "3">>
    /\ Proportional(<<"2">>, <<"1">>, stopLoss)
    /\ Proportional(<<"2">>, <<"3">>, takeProfit)
    /\ Lt(results.ratio, Num(1))
    /\ EqNum(calculateRiskReward(WithPrices(<<"2">>, <<"1">>, <<"3">>)).ratio, Num(1))

-----------------------------------------------------------------------------
(* SpecLeverage: a long at entry 100 with the stop 0.5% .. MaxStopDistance%   *)
(* away, or at entry 110 with these stops or the stop 5% away, and the risk,  *)
(* allocation and max leverage fields                                         *)

MaxStopDistance == 12

\* the entry prices of the specification
LeverageEntries == {<<"1", "0", "0">>, <<"1", "1", "0">>}

\* stops 1, 2, ... MaxStopDistance below 100, and 99.5, 97.5 and 104.5
LeverageStops ==
    TextsOf(100 - MaxStopDistance, 99, 1)
        \cup {<<"9", "9", ".", "5">>, <<"9", "7", ".", "5">>,
              <<"1", "0", "4", ".", "5">>}

\* in and out of the range the field declares (min 5, max 100), and empty
LeverageAllocations ==
    {<<"1">>, <<"5">>, <<"1", "0">>, <<"2", "5">>, <<"0">>, Empty}

\* in and out of the range the field declares (min 1, max 125), and empty
LeverageMaxLeverages ==
    {<<"3">>, <<"7", "5">>, <<"1", "2", "5">>, <<"0", ".", "5">>,
     <<"2", ".", "5">>, Empty}

NextLeverage ==
    \/ \E v \in LeverageEntries : SetEntryPrice(v)
    \/ SetTakeProfit(<<"1", "2", "0">>)
    \/ SetTotalCapital(<<"1", "0", "0", "0", "0">>)
    \/ \E v \in LeverageStops : SetStopLoss(v)
    \/ \E v \in {<<"1">>, <<"2">>} : SetRiskPercentage(v)
    \/ \E v \in LeverageAllocations : SetAssetAllocation(v)
    \/ \E v \in LeverageMaxLeverages : SetMaxLeverage(v)

SpecLeverage == Init /\ [][NextLeverage]_vars

\* C2 (as claimed): whenever calculateOptimalLeverage ran, for any max
\* leverage the form can supply, `optimal` is an integer with
\* 1 <= optimal <= maxLev.
C2_OptimalIntegerWithinMaxLev ==
    Sized =>
        /\ IsInteger(results.leverageInfo.optimal)
        /\ Le(Num(1), results.leverageInfo.optimal)
        /\ Le(results.leverageInfo.optimal, maxLev)

\* the unrounded leverage and its rounded, clamped value in the current state
rawLeverage == optimalLeverage(entry, stop, capital, riskPct, allocation)

clampedLeverage == clampLeverage(MathRound(rawLeverage), maxLev)

\* the bounds of the ladder on the leverage lev for a stop `move` percent
\* away, clamped being the rounded raw leverage clamped to [1, maxLeverage]
LadderCaps(move, lev, clamped) ==
    /\ Ge(move, Num(10)) => Le(lev, Num(2))
    /\ Ge(move, Num(5)) => Le(lev, Num(5))
    /\ Ge(move, Num(3)) => Le(lev, Num(10))
    /\ Ge(move, Num(2)) => Le(lev, Num(20))
    /\ Lt(move, Num(2)) => lev = clamped

\* ... and the leverage of info is a number within them and not above clamped
\* if raw and the max leverage are numbers, and NaN if not
CapsOnly(info, raw, clamped) ==
    IF IsNaN(raw) \/ IsNaN(maxLev) THEN IsNaN(info.optimal)
    ELSE /\ LadderCaps(info.riskPercentageMove, info.optimal, clamped)
         /\ Le(info.optimal, clamped)

\* farther away
NotBelow(info, other) ==
    Le(info.riskPercentageMove, other.riskPercentageMove)
        => Ge(info.optimal, other.optimal)

\* the entry and stop prices of the trades of the specification
LeverageTrades ==
    {<<parseFloat(e2), parseFloat(s2)>> : e2 \in LeverageEntries, s2 \in LeverageStops}

\* the recommendation for the entry and stop of trade p with the capital,
\* risk, allocation and max leverage of the form
LeverageAt(p) ==
    calculateOptimalLeverage(p[1], p[2], capital, riskPct, allocation, maxLev)

\* the unrounded leverage of that trade is a number
RawLeverageAt(p) ==
    ~IsNaN(optimalLeverage(p[1], p[2], capital, riskPct, allocation))

\* info gets no lower leverage than any trade of the specification whose stop
\* is as far or farther from the entry
MonotoneFrom(info) ==
    \A p \in LeverageTrades : NotBelow(info, LeverageAt(p))

\* ... than any such trade with a positive entry price and an unrounded
\* leverage that is a number
MonotoneAmongNumbers(info) ==
    \A p \in LeverageTrades :
        (Gt(p[1], Num(0)) /\ RawLeverageAt(p)) => NotBelow(info, LeverageAt(p))


-----------------------------------------------------------------------------
(* Sizing of a valid trade, under Spec                                       *)

\* the form of the worked example: long 100 / 95 / 115, capital 10000,
\* risk 1%, allocation 10%, max leverage 75
Scenario ==
    /\ positionType = "long"
    /\ entryPrice = <<"1", "0", "0">>
    /\ stopLoss = <<"9", "5">>
    /\ takeProfit = <<"1", "1", "5">>
    /\ totalCapital = <<"1", "0", "0", "0", "0">>
    /\ riskPercentage = <<"1">>
    /\ assetAllocation = <<"1", "0">>
    /\ maxLeverage = <<"7", "5">>

\* C5: for long, entry 100, stop 95, target 115, capital 10000, risk 1%,
\* allocation 10%, max leverage 75 the result has riskPerCoin 5,
\* rewardPerCoin 15, ratio 3, riskPercentageMove 5, raw leverage 2,
\* recommended leverage 2, positionValue 2000, recommendedAssets 20,
\* potentialLoss 100 and potentialProfit 300.
C5_WorkedExample ==
    Scenario =>
        /\ Sized
        /\ results.riskPerCoin = Num(5)
        /\ results.rewardPerCoin = Num(15)
        /\ results.ratio = Num(3)
        /\ results.leverageInfo.riskPercentageMove = Num(5)
        /\ rawLeverage = Num(2)
        /\ results.leverageInfo.optimal = Num(2)
        /\ results.positionValue = Num(2000)
        /\ results.recommendedAssets = Num(20)
        /\ results.potentialLoss = Num(100)
        /\ results.potentialProfit = Num(300)

\* the worked example has been typed in and rendered
C5_Witness == Scenario /\ Sized /\ results.maxRiskAmount = Num(100)

\* the four assignments of the sizing block
SizingAssignments(r) ==
    /\ r.positionValue = Mul(r.allocatedAmount, r.leverageInfo.optimal)
    /\ r.recommendedAssets = Div(r.positionValue, entry)
    /\ r.potentialLoss = Mul(r.recommendedAssets, r.riskPerCoin)
    /\ r.potentialProfit = Mul(r.recommendedAssets, r.rewardPerCoin)

\* C6 (as claimed): for every valid trade with capital present,
\* positionValue = allocatedAmount * leverage,
\* recommendedAssets = positionValue / entry,
\* potentialLoss = recommendedAssets * riskPerCoin,
\* potentialProfit = recommendedAssets * rewardPerCoin, and so
\* potentialProfit * riskPerCoin = potentialLoss * rewardPerCoin.
C6_Original ==
    Sized =>
        /\ SizingAssignments(results)
        /\ Mul(results.potentialProfit, results.riskPerCoin)
               = Mul(results.potentialLoss, results.rewardPerCoin)

\* the two products of the profit-to-loss identity agree up to rounding
ProfitToLossIsRatio(r) ==
    Close(Mul(r.potentialProfit, r.riskPerCoin), Mul(r.potentialLoss, r.rewardPerCoin))

\* the amounts of the profit-to-loss identity of result r are normal doubles
NormalProducts(r) ==
    /\ IsNormal(r.potentialLoss)
    /\ IsNormal(r.potentialProfit)
    /\ IsNormal(Mul(r.potentialProfit, r.riskPerCoin))
    /\ IsNormal(Mul(r.potentialLoss, r.rewardPerCoin))

\* the four assignments, and the identity of the products that are normal
SizingIdentities(r) ==
    SizingAssignments(r) /\ (NormalProducts(r) => ProfitToLossIsRatio(r))

\* C6 (amended): for every valid trade with capital present the four
\* assignments hold as computed (each is one rounded floating-point
\* operation; with an empty Allocation or Max Leverage field the four
\* amounts are NaN), and whenever potentialLoss, potentialProfit and the two
\* products potentialProfit * riskPerCoin and potentialLoss * rewardPerCoin
\* are normal doubles (numbers, finite, not zero, not subnormal), the two
\* products are equal up to floating-point rounding: they differ by at most
\* 2^-48 of the larger.
C6_SizingIdentities ==
    Sized => SizingIdentities(results)

\* a sized long 99.9 / 95 / 115 whose two products differ in the last place
C6_Witness ==
    /\ Sized
    /\ positionType = "long"
    /\ entryPrice = <<"9", "9", ".", "9">>
    /\ NormalProducts(results)
    /\ Mul(results.potentialProfit, results.riskPerCoin)
           # Mul(results.potentialLoss, results.rewardPerCoin)
    /\ ProfitToLossIsRatio(results)

-----------------------------------------------------------------------------
(* SpecLevels: entry 100 with a stop 10 away on either side and targets 5 .. *)
(* 5 * MaxTargetSteps away on either side, long and short                    *)

MaxTargetSteps == 7

LevelStops == {<<"9", "0">>, <<"1", "1", "0">>}

LevelTargets ==
    TextsOf(100 - 5 * MaxTargetSteps, 100 + 5 * MaxTargetSteps, 5)

NextLevels ==
    \/ SetEntryPrice(<<"1", "0", "0">>)
    \/ SetTotalCapital(<<"1", "0", "0", "0", "0">>)
    \/ \E v \in LevelStops : SetStopLoss(v)
    \/ \E v \in LevelTargets : SetTakeProfit(v)
    \/ \E t \in {"long", "short"} : SetPositionType(t)

SpecLevels == Init /\ [][NextLevels]_vars

\* the price k risk distances from the entry in the favourable direction
AtR(k) ==
    IF positionType = "long"
    THEN Add(entry, Mul(k, results.riskPerCoin))
    ELSE Sub(entry, Mul(k, results.riskPerCoin))

\* C7: tp2 is placed by rrRatio = |target - entry| / |entry - stop|: 2 risk
\* distances from the entry in the favourable direction when rrRatio >= 3,
\* 1.5 risk distances when 2 <= rrRatio < 3 (so a ratio of exactly 2 gives
\* 1.5R), and the midpoint of tp1.price and the target when rrRatio < 2;
\* tp2.rMultiple is |tp2.price - entry| / riskPerCoin.
C7_Tp2Placement ==
    Sized =>
        LET rrRatio == Div(MathAbs(Sub(target, entry)), MathAbs(Sub(entry, stop)))
            tp1     == results.partialTPLevels.tp1
            tp2     == results.partialTPLevels.tp2
        IN  /\ Ge(rrRatio, Num(3)) => tp2.price = AtR(Num(2))
            /\ (Ge(rrRatio, Num(2)) /\ Lt(rrRatio, Num(3)))
                   => tp2.price = AtR(Q(3, 2))
            /\ Lt(rrRatio, Num(2))
                   => tp2.price = Div(Add(tp1.price, target), Num(2))
            /\ tp2.rMultiple
                   = Div(MathAbs(Sub(tp2.price, entry)), results.riskPerCoin)

\* a short with a ratio of exactly 2: tp2 at 1.5R = 85
C7_Witness ==
    /\ Sized
    /\ positionType = "short"
    /\ EqNum(results.ratio, Num(2))
    /\ results.partialTPLevels.tp2.price = Num(85)
    /\ results.partialTPLevels.tp2.rMultiple = Q(3, 2)

-----------------------------------------------------------------------------
(* SpecPartial: the partial take-profit schedule of longs and shorts at      *)
(* entry 100 or 99.9, with leg percentages 0, 25, ... 25 * MaxPercentSteps   *)
(* and 6                                                                     *)

MaxPercentSteps == 4

PartialStops == {<<"9", "5">>, <<"1", "0", "5">>}

PartialTargets == {<<"8", "5">>, <<"1", "1", "0">>, <<"1", "1", "5">>}

\* 0 is below the range the field declares (min 5) and is accepted by the
\* code, and so is the emptied field
PartialAllocations == {<<"1", "0">>, <<"0">>, Empty}

PartialPercents ==
    TextsOf(0, 25 * MaxPercentSteps, 25) \cup {<<"6">>}

NextPartial ==
    \/ \E v \in {<<"1", "0", "0">>, <<"9", "9", ".", "9">>} : SetEntryPrice(v)
    \/ SetTotalCapital(<<"1", "0", "0", "0", "0">>)
    \/ \E v \in PartialStops : SetStopLoss(v)
    \/ \E v \in PartialTargets : SetTakeProfit(v)
    \/ \E t \in {"long", "short"} : SetPositionType(t)
    \/ \E v \in PartialAllocations : SetAssetAllocation(v)
    \/ ToggleEnablePartialTP
    \/ \E v \in PartialPercents : SetPartialTP1Percent(v)
    \/ \E v \in PartialPercents : SetPartialTP2Percent(v)

SpecPartial == Init /\ [][NextPartial]_vars

\* the fractions calculatePartialTPProfits derives from the two fields
tp1Percent == Div(parseFloat(partialTP1Percent), Num(100))

tp2Percent == Div(parseFloat(partialTP2Percent), Num(100))

\* the partial take-profit profits were computed for the current form
HasLegs == Sized /\ results.partialTPProfits # NULL

\* the whole position exits at the final target
SingleExit == HasLegs /\ IsZero(tp1Percent) /\ IsZero(tp2Percent)

\* the position size of result r and the profits of its legs are finite
\* numbers
FiniteLegs(r) ==
    \A x \in {r.recommendedAssets, r.potentialProfit,
               r.partialTPProfits.tp1.profit, r.partialTPProfits.tp2.profit} :
        ~IsNaN(x) /\ ~IsInf(x)

\* the amounts behind the average exit of result r are normal doubles
NormalExit(r) ==
    IsNormal(r.potentialLoss) /\ IsNormal(r.potentialProfit) /\ IsNormal(r.ratio)

\* the single exit of result r: the plan's total is the projected profit, and
\* its average exit is the ratio up to rounding, or NaN for an empty position
SingleExitMatches(r) ==
    /\ FiniteLegs(r) =>
           EqNum(r.partialTPProfits.totalProfit, r.potentialProfit)
    /\ (FiniteLegs(r) /\ NormalExit(r)) =>
           Close(r.partialTPProfits.avgExitRMultiple, r.ratio)
    /\ IsZero(r.recommendedAssets) => IsNaN(r.partialTPProfits.avgExitRMultiple)

\* C8 (as claimed): with tp1Percent = tp2Percent = 0, for every valid trade
\* with capital present avgExitRMultiple equals the result's ratio and
\* totalProfit equals potentialProfit.
C8_Original ==
    SingleExit =>
        /\ EqNum(results.partialTPProfits.avgExitRMultiple, results.ratio)
        /\ EqNum(results.partialTPProfits.totalProfit, results.potentialProfit)

\* C8 (amended): with tp1Percent = tp2Percent = 0, for every valid trade with
\* capital present: whenever recommendedAssets, potentialProfit and the
\* profits of the first two legs are finite numbers (with an empty
\* Allocation or Max Leverage field they are NaN), totalProfit equals
\* potentialProfit; whenever in addition potentialLoss, potentialProfit and
\* ratio are normal doubles (numbers, finite, not zero, not subnormal),
\* avgExitRMultiple equals the result's ratio up to floating-point rounding
\* (they differ by at most 2^-48 of the larger); and with a position size of
\* zero avgExitRMultiple is NaN.
C8_SingleExitMatchesRatio ==
    SingleExit => SingleExitMatches(results)

\* a long 99.9 / 95 / 110 leaving whole at the target: the average exit and
\* the ratio differ in the last place
C8_Witness ==
    /\ SingleExit
    /\ positionType = "long"
    /\ entryPrice = <<"9", "9", ".", "9">>
    /\ FiniteLegs(results) /\ NormalExit(results)
    /\ ~EqNum(results.partialTPProfits.avgExitRMultiple, results.ratio)
    /\ Close(results.partialTPProfits.avgExitRMultiple, results.ratio)

\* tp1Percent and tp2Percent are each within [0, 1] and sum to at most 1
PercentsWithinWhole ==
    /\ Ge(tp1Percent, Num(0)) /\ Le(tp1Percent, Num(1))
    /\ Ge(tp2Percent, Num(0)) /\ Le(tp2Percent, Num(1))
    /\ Le(Add(tp1Percent, tp2Percent), Num(1))

\* C10 (as claimed): for tp1 and tp2 percentages each within [0, 100] and
\* summing to at most 100, the three leg fractions sum to 1, the three
\* reported percents sum to 100, and the three leg asset amounts sum to
\* recommendedAssets.
C10_Original ==
    (HasLegs /\ PercentsWithinWhole) =>
        LET legs == results.partialTPProfits
        IN  /\ Add(Add(tp1Percent, tp2Percent),
                   tp3PercentOf(tp1Percent, tp2Percent)) = Num(1)
            /\ Add(Add(legs.tp1.percent, legs.tp2.percent), legs.tp3.percent)
                   = Num(100)
            /\ Add(Add(legs.tp1.assets, legs.tp2.assets), legs.tp3.assets)
                   = results.recommendedAssets

\* the sum of the three leg asset amounts
LegAssets(legs) == Add(Add(legs.tp1.assets, legs.tp2.assets), legs.tp3.assets)

\* the three sums of a plan are the whole up to rounding, the third for a
\* whole that is a normal double or zero and a sum that does not overflow
LegsSumTo(legs, whole) ==
    /\ Close(Add(Add(tp1Percent, tp2Percent), tp3PercentOf(tp1Percent, tp2Percent)),
             Num(1))
    /\ Close(Add(Add(legs.tp1.percent, legs.tp2.percent), legs.tp3.percent),
             Num(100))
    /\ ((IsNormal(whole) \/ IsZero(whole)) /\ ~IsInf(LegAssets(legs))) =>
           Close(LegAssets(legs), whole)
    /\ IsNaN(whole) => IsNaN(LegAssets(legs))

\* C10 (amended): for tp1 and tp2 percentages each within [0, 100] and
\* summing to at most 100, the three leg fractions sum to 1 and the three
\* reported percents to 100 up to floating-point rounding (each sum differs
\* from the whole by at most 2^-48 of it), and so do the three leg asset
\* amounts to recommendedAssets whenever recommendedAssets is a normal double
\* (a number, finite, not subnormal) or zero and their sum does not overflow
\* to Infinity.  With an empty Allocation or Max Leverage field
\* recommendedAssets and the leg amounts are NaN.
C10_LegsSumToWhole ==
    (HasLegs /\ PercentsWithinWhole) =>
        LegsSumTo(results.partialTPProfits, results.recommendedAssets)

\* legs of 6%, 6% and the derived 88% of a position of 20 units: the
\* fractions do not add up to 1 in the last place
C10_Witness ==
    /\ HasLegs
    /\ PercentsWithinWhole
    /\ partialTP1Percent = <<"6">>
    /\ partialTP2Percent = <<"6">>
    /\ results.recommendedAssets = Num(20)
    /\ Add(Add(tp1Percent, tp2Percent), tp3PercentOf(tp1Percent, tp2Percent))
           # Num(1)
    /\ LegsSumTo(results.partialTPProfits, results.recommendedAssets)

-----------------------------------------------------------------------------
(* The first take-profit level, under SpecLevels                             *)

\* C11: for every valid trade tp1.price lies exactly one riskPerCoin from the
\* entry on the favourable side (entry + |entry - stop| for a long,
\* entry - |entry - stop| for a short) and tp1.rMultiple = 1.
C11_Tp1AtOneR ==
    Sized =>
        /\ results.partialTPLevels.tp1.price
               = (IF positionType = "long"
                  THEN Add(entry, MathAbs(Sub(entry, stop)))
                  ELSE Sub(entry, MathAbs(Sub(entry, stop))))
        /\ results.partialTPLevels.tp1.rMultiple = Num(1)

\* a short 100 / 110: tp1 at 90
C11_Witness ==
    /\ Sized
    /\ positionType = "short"
    /\ stopLoss = <<"1", "1", "0">>
    /\ results.partialTPLevels.tp1.price = Num(90)
    /\ results.partialTPLevels.tp1.rMultiple = Num(1)

-----------------------------------------------------------------------------
(* SpecIncomplete: price fields that are empty, hold text parseFloat cannot  *)
(* read, hold 0, or hold one of MaxIncompletePrices proper prices            *)

MaxIncompletePrices == 3

\* texts without a leading number: parseFloat gives NaN
UnparsableTexts == {Empty, <<"-">>, <<".">>, <<"a", "b", "c">>}

IncompletePrices ==
    UnparsableTexts \cup {<<"0">>}
        \cup TextsOf(90, 90 + 15 * (MaxIncompletePrices - 1), 15)

NextIncomplete ==
    \/ \E v \in IncompletePrices : SetEntryPrice(v)
    \/ \E v \in IncompletePrices : SetStopLoss(v)
    \/ \E v \in IncompletePrices : SetTakeProfit(v)
    \/ \E v \in {Empty, <<"1", "0", "0", "0", "0">>} : SetTotalCapital(v)
    \/ \E t \in {"long", "short"} : SetPositionType(t)

SpecIncomplete == Init /\ [][NextIncomplete]_vars

\* one of the three price fields is empty or has no number to parse
IncompleteInput == IsNaN(entry) \/ IsNaN(stop) \/ IsNaN(target)

\* C12: when any of entry, stop or target is missing or unparsable,
\* calculateRiskReward returns null (no result at all) and not the error
\* object, so no sizing, leverage or partial-exit data exists.
C12_IncompleteInputGivesNull ==
    IncompleteInput => results = NULL

\* entry and stop of a valid long are typed, capital too, the target is not
\* readable: still no result
C12_Witness ==
    /\ positionType = "long"
    /\ entryPrice = <<"1", "0", "5">>
    /\ stopLoss = <<"9", "0">>
    /\ takeProfit = <<"a", "b", "c">>
    /\ totalCapital = <<"1", "0", "0", "0", "0">>
    /\ results = NULL

-----------------------------------------------------------------------------
(* SpecCapital: longs and shorts at entry 100 with the capital field empty,  *)
(* zero, negative or positive                                                *)

CapitalTexts ==
    {Empty, <<"0">>, <<"0", ".", "0", "0">>, <<"-", "1", "0", "0", "0", "0">>,
     <<"1", "0", "0", "0", "0">>, <<"2", "5", "0", "0">>}

NextCapital ==
    \/ SetEntryPrice(<<"1", "0", "0">>)
    \/ \E v \in {<<"9", "5">>, <<"1", "0", "5">>} : SetStopLoss(v)
    \/ \E v \in {<<"8", "5">>, <<"1", "1", "5">>} : SetTakeProfit(v)
    \/ \E v \in CapitalTexts : SetTotalCapital(v)
    \/ \E t \in {"long", "short"} : SetPositionType(t)
    \/ \E v \in {<<"1", "0">>, <<"2", "5">>} : SetAssetAllocation(v)
    \/ ToggleEnablePartialTP

SpecCapital == Init /\ [][NextCapital]_vars

\* C13: when totalCapital is absent or zero and the trade is valid, sizing
\* is skipped: the result carries riskPerCoin, rewardPerCoin and ratio, while
\* leverageInfo, partialTPLevels and partialTPProfits are null and
\* maxRiskAmount, allocatedAmount, positionValue, recommendedAssets,
\* potentialLoss and potentialProfit are 0.
C13_NoCapitalNoSizing ==
    (ValidTrade /\ (IsNaN(capital) \/ IsZero(capital))) =>
        /\ results.riskPerCoin = MathAbs(Sub(entry, stop))
        /\ results.rewardPerCoin = MathAbs(Sub(target, entry))
        /\ results.ratio = Div(results.rewardPerCoin, results.riskPerCoin)
        /\ results.leverageInfo = NULL
        /\ results.partialTPLevels = NULL
        /\ results.partialTPProfits = NULL
        /\ results.maxRiskAmount = Num(0)
        /\ results.allocatedAmount = Num(0)
        /\ results.positionValue = Num(0)
        /\ results.recommendedAssets = Num(0)
        /\ results.potentialLoss = Num(0)
        /\ results.potentialProfit = Num(0)

\* a valid short 100 / 105 / 85 with the capital field holding 0.00
C13_Witness ==
    /\ ValidTrade
    /\ positionType = "short"
    /\ totalCapital = <<"0", ".", "0", "0">>
    /\ enablePartialTP
    /\ results.ratio = Num(3)
    /\ results.leverageInfo = NULL

\* C14 (as claimed): the leverage recommendation is computed only when
\* capital > 0; for every capital that is not strictly positive, negative
\* capital included, leverageInfo stays null.
C14_LeverageOnlyForPositiveCapital ==
    (ValidTrade /\ ~Gt(capital, Num(0))) => results.leverageInfo = NULL

-----------------------------------------------------------------------------
(* SpecRate: the exchange-rate fetch next to a form in which the long        *)
(* 100 / 95 / 115 with capital 10000 is typed                                *)

\* the text "58.5", as in {"rates": {"PHP": "58.5"}}
RateText == Text(<<"5", "8", ".", "5">>)

\* response bodies: no `rates`, `rates` without PHP, PHP 0, PHP negative, two
\* proper rates, and PHP holding the text "58.5", the text "n/a" or true
RateResponses ==
    {[hasRates |-> FALSE, PHP |-> NULL], [hasRates |-> TRUE, PHP |-> NULL],
     [hasRates |-> TRUE, PHP |-> Num(0)], [hasRates |-> TRUE, PHP |-> Num(-1)],
     [hasRates |-> TRUE, PHP |-> Q(5731, 100)], [hasRates |-> TRUE, PHP |-> Num(59)],
     [hasRates |-> TRUE, PHP |-> RateText],
     [hasRates |-> TRUE, PHP |-> Text(<<"n", "/", "a">>)],
     [hasRates |-> TRUE, PHP |-> Bool(TRUE)]}

\* the steps of fetchExchangeRate calls
FetchStep ==
    \/ StartFetch
    \/ \E k \in 1..Len(fetchRuns), ok \in BOOLEAN : FetchSettles(k, ok)
    \/ \E k \in 1..Len(fetchRuns) : JsonThrows(k)
    \/ \E k \in 1..Len(fetchRuns), data \in RateResponses : JsonSettles(k, data)

NextRate ==
    \/ FetchStep
    \/ SetEntryPrice(<<"1", "0", "0">>)
    \/ SetStopLoss(<<"9", "5">>)
    \/ SetTakeProfit(<<"1", "1", "5">>)
    \/ SetTotalCapital(<<"1", "0", "0", "0", "0">>)

SpecRate == Init /\ [][NextRate]_vars

\* exchange rates other than the ones the model's sources deliver
OtherRates == {Q(5852, 100), Q(1, 2), Num(60), RateText}

\* shown is what calculateRiskReward returns on every state that differs from
\* the current one only in exchangeRate and isLoadingRate
RateBlind(shown) ==
    \A r \in OtherRates, b \in BOOLEAN :
        calculateRiskReward([State EXCEPT !.exchangeRate = r,
                                          !.isLoadingRate = b]) = shown

\* C15: the exchange rate has no effect on the computation: the rendered
\* result equals calculateRiskReward on any state that differs from the
\* current one only in exchangeRate and isLoadingRate, whatever the fetch
\* is doing (not started, pending, succeeded, failed).
C15_ExchangeRateIrrelevant ==
    RateBlind(results)

\* a sized trade rendered while a second fetch is pending, after the first
\* fetch has replaced the default rate
C15_Witness ==
    /\ Sized
    /\ isLoadingRate
    /\ fetchRuns # <<>>
    /\ exchangeRate = Num(59)
    /\ results.positionValue = Num(2000)

\* no call in flight has stored a rate
NothingStoredInFlight == \A k \in 1..Len(fetchRuns) : fetchRuns[k].stored = NULL

\* C16 (as claimed): if every source of a fetchExchangeRate call fails
\* (throws) or returns no usable positive PHP rate, exchangeRate is left at the
\* value held when the call began (the default 58.52 if no call ever stored a
\* rate), and the call still ends with isLoadingRate reset to false.  Every
\* source of the call that returned last has failed when each one ended in
\* the catch block or without a rate: lastFetch.failed = 1 .. NumApis; the
\* rate is compared as long as no call begun since has stored one.
C16_AllSourcesFailKeepsRate ==
    (lastFetch.returned /\ lastFetch.failed = 1..NumApis /\ NothingStoredInFlight) =>
        /\ exchangeRate = lastFetch.rateAtStart
        /\ fetchRuns = <<>> => ~isLoadingRate

\* C17 (as claimed): within one fetchExchangeRate call the sources are
\* contacted in list order: the source awaited is contacted only after every
\* earlier source has failed or returned no usable rate; the first source
\* returning a rate > 0 sets exchangeRate to that rate and the call returns,
\* with no later source contacted: a call in flight has stored no rate.
C17_SourcesInOrderFirstRateWins ==
    /\ \A k \in 1..Len(fetchRuns) :
           /\ fetchRuns[k].api \in 1..NumApis
           /\ fetchRuns[k].failed = 1..(fetchRuns[k].api - 1)
           /\ fetchRuns[k].stored = NULL
    /\ (lastFetch.returned /\ lastFetch.rate # NULL) =>
           /\ usableRate(lastFetch.rate)
           /\ exchangeRate = lastFetch.rate
           /\ lastFetch.failed = 1..(lastFetch.api - 1)

-----------------------------------------------------------------------------
(* SpecSession: every kind of input change of the screen: each form field,   *)
(* the direction and risk buttons, the partial-TP toggle, and rate updates   *)
(* by fetches whose first source answers                                     *)

SessionFetchStep ==
    \/ StartFetch
    \/ \E k \in 1..Len(fetchRuns) : FetchSettles(k, TRUE)
    \/ \E k \in 1..Len(fetchRuns) :
           JsonSettles(k, [hasRates |-> TRUE, PHP |-> Num(59)])

NextSession ==
    \/ SessionFetchStep
    \/ \E v \in {Empty, <<"1", "0", "0">>} : SetEntryPrice(v)
    \/ SetStopLoss(<<"9", "5">>)
    \/ SetTakeProfit(<<"1", "1", "5">>)
    \/ SetTotalCapital(<<"1", "0", "0", "0", "0">>)
    \/ \E v \in {<<"1">>, <<"2">>} : SetRiskPercentage(v)
    \/ \E v \in {<<"1", "0">>, <<"2", "5">>} : SetAssetAllocation(v)
    \/ \E v \in {<<"7", "5">>, <<"3">>} : SetMaxLeverage(v)
    \/ \E t \in {"long", "short"} : SetPositionType(t)
    \/ ToggleEnablePartialTP
    \/ \E v \in {<<"5", "0">>, <<"2", "5">>} : SetPartialTP1Percent(v)
    \/ \E v \in {<<"3", "0">>, <<"2", "5">>} : SetPartialTP2Percent(v)

SpecSession == Init /\ [][NextSession]_vars

\* C18: after any sequence of input changes (prices, capital, risk,
\* allocation, max leverage, direction, partial-TP settings, rate updates)
\* the displayed result is the evaluation of the current input values alone:
\* histories that end in the same input values show the same result.
C18_ResultOfCurrentInputsOnly ==
    results = calculateRiskReward(State)

\* the worked example after edits that went through other values, the
\* entry field emptied and typed again included, and a rate update
C18_Witness ==
    /\ Scenario
    /\ enablePartialTP
    /\ partialTP1Percent = <<"2", "5">>
    /\ exchangeRate = Num(59)
    /\ lastFetch.returned
    /\ results.potentialProfit = Num(300)
    /\ results.partialTPProfits.tp1.percent = Num(25)

-----------------------------------------------------------------------------
(* The risk budget, under SpecLeverage                                       *)

\* the loss at the stop of the position sized with the unrounded leverage
RawLoss(r) == Mul(Div(Mul(r.allocatedAmount, rawLeverage), entry), r.riskPerCoin)

\* every amount on the way from the prices to the unrounded leverage and on
\* to the loss at the stop
BudgetSteps(r) ==
    {r.maxRiskAmount, r.allocatedAmount, Div(r.riskPerCoin, entry),
     r.leverageInfo.riskPercentageMove,
     Div(r.leverageInfo.riskPercentageMove, Num(100)),
     Mul(r.allocatedAmount, Div(r.leverageInfo.riskPercentageMove, Num(100))),
     rawLeverage, Mul(r.allocatedAmount, rawLeverage),
     Div(Mul(r.allocatedAmount, rawLeverage), entry), RawLoss(r)}

\* ... is a normal double: no NaN of an empty field, no Infinity or zero of an
\* allocation of 0, no overflow and no underflow
NormalBudget(r) == \A x \in BudgetSteps(r) : IsNormal(x)

\* the recommended leverage is the unrounded one: already an integer within
\* [1, maxLev] and not reduced by the ladder
RawLeverageKept ==
    /\ IsInteger(rawLeverage)
    /\ Le(Num(1), rawLeverage)
    /\ Le(rawLeverage, maxLev)
    /\ results.leverageInfo.optimal = rawLeverage

\* the unrounded leverage as calculateOptimalLeverage computes it from the
\* amounts of result r
RawLeverageOf(r) ==
    rawLeverage
        = Div(r.maxRiskAmount,
              Mul(r.allocatedAmount, Div(r.leverageInfo.riskPercentageMove, Num(100))))

\* C19 (as claimed): the unrounded leverage maxRiskAmount / (allocatedAmount *
\* riskPercentageMove / 100) is the multiplier at which a full stop-out loses
\* exactly maxRiskAmount: (allocatedAmount * rawLeverage / entry) *
\* riskPerCoin = maxRiskAmount; so whenever it is already an integer in
\* [1, maxLev] that the ladder does not reduce, potentialLoss = maxRiskAmount.
C19_Original ==
    Sized =>
        /\ RawLeverageOf(results)
        /\ RawLoss(results) = results.maxRiskAmount
        /\ RawLeverageKept => results.potentialLoss = results.maxRiskAmount

\* the budget identities of result r up to rounding
MeetsBudget(r) ==
    /\ RawLeverageOf(r)
    /\ Close(RawLoss(r), r.maxRiskAmount)
    /\ RawLeverageKept => Close(r.potentialLoss, r.maxRiskAmount)

\* ... whenever every amount on the way is a normal double
WithinBudget(r) == RawLeverageOf(r) /\ (NormalBudget(r) => MeetsBudget(r))

\* C19 (amended): whenever every amount of the computation is a normal
\* double (a number, finite, not zero, not subnormal: the Allocation field
\* is neither empty nor 0 and nothing overflows or underflows), the
\* unrounded leverage maxRiskAmount / (allocatedAmount *
\* (riskPercentageMove / 100)) is the multiplier at which a full stop-out
\* loses maxRiskAmount up to floating-point rounding: (allocatedAmount *
\* rawLeverage / entry) * riskPerCoin differs from maxRiskAmount by at most
\* 2^-48 of it; and whenever the unrounded leverage is in addition already
\* an integer in [1, maxLev] that the ladder does not reduce, potentialLoss
\* equals maxRiskAmount up to the same rounding.
C19_RawLeverageMeetsBudget ==
    Sized => WithinBudget(results)

\* entry 110, stop 104.5 (5% away), risk 1%, allocation 10%: the unrounded
\* leverage is 2, the 5% bracket's cap 5 leaves it, and the loss at the stop
\* is 100.00000000000001 for a budget of 100
C19_Witness ==
    /\ Sized
    /\ NormalBudget(results)
    /\ RawLeverageKept
    /\ entryPrice = <<"1", "1", "0">>
    /\ stopLoss = <<"1", "0", "4", ".", "5">>
    /\ rawLeverage = Num(2)
    /\ results.maxRiskAmount = Num(100)
    /\ Gt(results.potentialLoss, Num(100))
    /\ Close(results.potentialLoss, results.maxRiskAmount)

\* C20 (as claimed): for every valid trade with capital > 0, riskPercent > 0
\* and allocationPercent > 0 the projected loss at the recommended leverage
\* never exceeds the risk budget: potentialLoss <= maxRiskAmount, also after
\* the leverage is rounded to an integer and clamped to at least 1.
C20_LossWithinRiskBudget ==
    (Sized /\ Gt(capital, Num(0)) /\ Gt(riskPct, Num(0)) /\ Gt(allocation, Num(0)))
        => Le(results.potentialLoss, results.maxRiskAmount)

-----------------------------------------------------------------------------
(* The two halves of the validity test, under SpecValidation                 *)

\* riskPerCoin as calculateRiskReward assigns it, before any check
signedRisk(e, s, posType) == IF posType = "long" THEN Sub(e, s) ELSE Sub(s, e)

\* rewardPerCoin as calculateRiskReward assigns it, before any check
signedReward(e, t, posType) == IF posType = "long" THEN Sub(t, e) ELSE Sub(e, t)

\* the ordering check passes and yet a distance is <= 0
DistanceCheckDecides(e, s, t, posType) ==
    /\ isValidOf(e, s, t, posType)
    /\ \/ Le(signedRisk(e, s, posType), Num(0))
       \/ Le(signedReward(e, t, posType), Num(0))

\* C21 (as claimed): the non-positive-distance check can fire even when the
\* ordering check passes (e.g. equal prices): for the selected direction there
\* are prices the form can hold for which isValid is true yet a computed
\* distance is <= 0.
C21_Original ==
    \E e \in ValidationPrices, s \in ValidationPrices, t \in ValidationPrices :
        DistanceCheckDecides(parseFloat(e), parseFloat(s), parseFloat(t),
                             positionType)

\* C21 (amended): riskPerCoin <= 0 or rewardPerCoin <= 0 yields the error
\* result, but never on its own: whenever the ordering check passes both
\* distances are > 0, so the result is the error object exactly when the
\* ordering check fails; equal prices already fail the ordering check.
C21_DistanceCheckNeverDecides ==
    /\ ~DistanceCheckDecides(entry, stop, target, positionType)
    /\ results # NULL => (results.error <=> ~isValidOf(entry, stop, target, positionType))
    /\ (results # NULL /\ (EqNum(entry, stop) \/ EqNum(entry, target)))
           => /\ results.error
              /\ ~isValidOf(entry, stop, target, positionType)

\* entry 100, stop 100.0, target 120: the risk distance is 0, the ordering
\* check has failed, and the result is the error object
C21_Witness ==
    /\ entryPrice = <<"1", "0", "0">>
    /\ stopLoss = <<"1", "0", "0", ".", "0">>
    /\ takeProfit = <<"1", "2", "0">>
    /\ positionType = "long"
    /\ IsZero(signedRisk(entry, stop, positionType))
    /\ ~isValidOf(entry, stop, target, positionType)
    /\ results = [error |-> TRUE, positionType |-> "long"]

-----------------------------------------------------------------------------
(* Legs that add up to more than the position, under SpecPartial             *)

\* the two legs take more than the whole position
LegsExceedWhole == Sized /\ enablePartialTP /\ Gt(Add(tp1Percent, tp2Percent), Num(1))

\* the plan of result r is computed from the unclamped remainder, all three
\* legs entering the total and the average exit
RemainderKept(r) ==
    /\ r.partialTPProfits # NULL
    /\ r.partialTPProfits.tp3.assets
           = Mul(r.recommendedAssets, tp3PercentOf(tp1Percent, tp2Percent))
    /\ r.partialTPProfits.totalProfit
           = Add(Add(r.partialTPProfits.tp1.profit, r.partialTPProfits.tp2.profit),
                 r.partialTPProfits.tp3.profit)
    /\ r.partialTPProfits.avgExitRMultiple
           = Div(r.partialTPProfits.totalProfit,
                 Mul(r.recommendedAssets, r.riskPerCoin))

\* the third leg of the plan legs is negative
NegativeLeg(legs) ==
    /\ Lt(tp3PercentOf(tp1Percent, tp2Percent), Num(0))
    /\ Lt(legs.tp3.assets, Num(0))
    /\ Lt(legs.tp3.profit, Num(0))

\* C22 (as claimed): tp3Percent is 1 - tp1Percent - tp2Percent, neither
\* clamped nor rejected: whenever tp1Percent + tp2Percent exceeds 100% the
\* evaluation still returns a plan, with a negative tp3 fraction, negative
\* tp3 assets and a negative tp3 profit, which enter totalProfit and
\* avgExitRMultiple.
C22_Original ==
    LegsExceedWhole =>
        (RemainderKept(results) /\ NegativeLeg(results.partialTPProfits))

\* x is negative, or the negative zero a negative product underflows to
NegativeOrUnderflown(x) == Lt(x, Num(0)) \/ x = Zero(-1)

\* the third leg of the plan legs of a position of the size given: a negative
\* fraction and percent, and amounts with the sign the size leaves them
SignedLeg(legs, size) ==
    /\ Lt(tp3PercentOf(tp1Percent, tp2Percent), Num(0))
    /\ Lt(legs.tp3.percent, Num(0))
    /\ Gt(size, Num(0)) => NegativeOrUnderflown(legs.tp3.assets)
    /\ Lt(legs.tp3.assets, Num(0)) => NegativeOrUnderflown(legs.tp3.profit)
    /\ IsNaN(size) => IsNaN(legs.tp3.assets)

\* C22 (amended): tp3Percent is 1 - tp1Percent - tp2Percent, neither clamped
\* nor rejected: whenever the two percentages are not negative and
\* tp1Percent + tp2Percent exceeds 100% the evaluation still returns a plan,
\* with a negative tp3 fraction and reported percent; the tp3 assets are
\* recommendedAssets * tp3Percent: negative for a position of positive size
\* (the negative zero -0 if the product underflows), and NaN for a size that
\* is NaN (empty Allocation or Max Leverage field); the tp3 profit is
\* negative (or -0 by underflow) whenever the tp3 assets are negative; the
\* three legs enter totalProfit and avgExitRMultiple as they are.  With the
\* allocation 0 the position is 0 and the tp3 assets and profit are -0, not
\* negative.
C22_NegativeRemainderKept ==
    (LegsExceedWhole /\ Ge(tp1Percent, Num(0)) /\ Ge(tp2Percent, Num(0))) =>
        /\ RemainderKept(results)
        /\ SignedLeg(results.partialTPProfits, results.recommendedAssets)

\* legs of 75% and 50% of 20 units, long 100 / 95 / 115: the third leg is
\* -25%, -5 units and -75 of profit, and the total is 75 + 100 - 75
C22_Witness ==
    /\ HasLegs
    /\ positionType = "long"
    /\ partialTP1Percent = <<"7", "5">>
    /\ partialTP2Percent = <<"5", "0">>
    /\ results.recommendedAssets = Num(20)
    /\ results.partialTPProfits.tp3.percent = Num(-25)
    /\ results.partialTPProfits.tp3.assets = Num(-5)
    /\ results.partialTPProfits.tp3.profit = Num(-75)
    /\ results.partialTPProfits.totalProfit = Num(100)

-----------------------------------------------------------------------------
(* Overlapping fetches, under SpecRate                                       *)

\* C23 (as claimed): the user can trigger a second exchange-rate refresh
\* before the first has resolved; both calls then proceed independently and
\* the one that resolves last decides the displayed rate.  The user can
\* trigger a refresh where the refresh button is enabled: the statement is
\* read on the states with a call in flight, each of which would have to
\* offer the button.
C23_Original ==
    fetchRuns # <<>> => ~RefreshDisabled

\* C23 (amended): a second refresh cannot be triggered before the first has
\* resolved, because the refresh button is disabled while isLoadingRate is
\* true; calls therefore never race, and while a call is in flight
\* exchangeRate is the rate that call stored last, or, as long as it has
\* stored none, still the value the call found when it began: no call
\* overwrites a rate stored by a call that began later.
C23_NoSecondRefreshWhilePending ==
    /\ fetchRuns # <<>> => RefreshDisabled
    /\ \A k \in 1..Len(fetchRuns) :
           exchangeRate = IF fetchRuns[k].stored = NULL
                          THEN fetchRuns[k].rateAtStart
                          ELSE fetchRuns[k].stored
    /\ \A j \in 1..Len(fetchRuns), k \in 1..Len(fetchRuns) : j = k

\* a refresh is pending at its second source, after an earlier call stored 59:
\* the button is disabled and 59 is still displayed
C23_Witness ==
    /\ Len(fetchRuns) = 1
    /\ fetchRuns[1].api = 2
    /\ fetchRuns[1].stored = NULL
    /\ fetchRuns[1].rateAtStart = Num(59)
    /\ lastFetch.rate = Num(59)
    /\ exchangeRate = Num(59)
    /\ RefreshDisabled

\* C24: isLoadingRate is true for as long as a fetchExchangeRate call is in
\* flight (the mount-time one or one started by the refresh button), the
\* refresh button is disabled exactly while isLoadingRate is true, and so at
\* most one call is in flight at any time.
C24_AtMostOneFetchInFlight ==
    /\ isLoadingRate <=> fetchRuns # <<>>
    /\ RefreshDisabled <=> isLoadingRate
    /\ Len(fetchRuns) <= 1

\* the mount-time call has returned without a rate, and a call started by the
\* button is awaiting the body of its first answer
C24_Witness ==
    /\ lastFetch.returned
    /\ lastFetch.rate = NULL
    /\ isLoadingRate
    /\ Len(fetchRuns) = 1
    /\ fetchRuns[1].api = 1
    /\ fetchRuns[1].awaiting = "json"

-----------------------------------------------------------------------------
(* Ordering of the three take-profit levels, under SpecLevels                *)

\* C25: for every valid trade, whatever its ratio, the three take-profit
\* levels are ordered in the favourable direction and do not pass the final
\* target (long: entry < tp1 <= tp2 <= tp3 = target; short: entry > tp1 >=
\* tp2 >= tp3 = target), and 1 = tp1.rMultiple <= tp2.rMultiple <=
\* tp3.rMultiple.
C25_LevelsOrderedUpToTarget ==
    Sized =>
        LET levels == results.partialTPLevels
        IN  /\ levels.tp3.price = target
            /\ IF positionType = "long"
               THEN /\ Lt(entry, levels.tp1.price)
                    /\ Le(levels.tp1.price, levels.tp2.price)
                    /\ Le(levels.tp2.price, levels.tp3.price)
               ELSE /\ Gt(entry, levels.tp1.price)
                    /\ Ge(levels.tp1.price, levels.tp2.price)
                    /\ Ge(levels.tp2.price, levels.tp3.price)
            /\ EqNum(levels.tp1.rMultiple, Num(1))
            /\ Le(levels.tp1.rMultiple, levels.tp2.rMultiple)
            /\ Le(levels.tp2.rMultiple, levels.tp3.rMultiple)

-----------------------------------------------------------------------------
(* Scaling out against holding to the target, under Spec                     *)

\* C26: for every valid trade with capital present and tp1Percent, tp2Percent
\* within [0, 100] and summing to at most 100, the partial-exit plan projects
\* no more than the single exit at the target: totalProfit <= potentialProfit
\* and avgExitRMultiple <= ratio.
C26_ScalingOutNeverBeatsTarget ==
    (/\ HasLegs
     /\ Ge(tp1Percent, Num(0)) /\ Le(tp1Percent, Num(1))
     /\ Ge(tp2Percent, Num(0)) /\ Le(tp2Percent, Num(1))
     /\ Le(Add(tp1Percent, tp2Percent), Num(1))) =>
        /\ Le(results.partialTPProfits.totalProfit, results.potentialProfit)
        /\ Le(results.partialTPProfits.avgExitRMultiple, results.ratio)

-----------------------------------------------------------------------------
(* The single-exit projections and the partial-exit configuration, under     *)
(* SpecPartial                                                               *)

\* a result with its partial-exit plan left out
withoutPlan(r) ==
    IF r = NULL \/ r.error THEN r ELSE [r EXCEPT !.partialTPProfits = NULL]

\* other settings of the partial-exit fields
OtherPercents == {<<"0">>, <<"7", "5">>}

\* shown is, but for its partialTPProfits, what calculateRiskReward returns
\* whatever enablePartialTP, partialTP1Percent and partialTP2Percent hold
PlanBlind(shown) ==
    \A b \in BOOLEAN, p1 \in OtherPercents, p2 \in OtherPercents :
        withoutPlan(calculateRiskReward([State EXCEPT !.enablePartialTP = b,
                                                      !.partialTP1Percent = p1,
                                                      !.partialTP2Percent = p2]))
            = withoutPlan(shown)

\* without partial exits there is no plan
NoPlanWhenDisabled(shown) ==
    (shown # NULL /\ ~shown.error /\ ~enablePartialTP) => shown.partialTPProfits = NULL

\* C27: changing enablePartialTP, partialTP1Percent or partialTP2Percent
\* leaves every field of the result other than partialTPProfits unchanged
\* (ratio, leverage, positionValue, recommendedAssets, potentialLoss,
\* potentialProfit and the partial TP level prices included): the result is,
\* but for partialTPProfits, the one of every other setting of the three
\* fields; and with partial exits disabled partialTPProfits is null.
C27_SingleExitIgnoresPartialConfig ==
    PlanBlind(results) /\ NoPlanWhenDisabled(results)

\* partial exits switched off on a sized long 100 / 95 / 110 after the first
\* leg was set to 75%: the projections are those of the single exit
C27_Witness ==
    /\ Sized
    /\ ~enablePartialTP
    /\ partialTP1Percent = <<"7", "5">>
    /\ positionType = "long"
    /\ stopLoss = <<"9", "5">>
    /\ takeProfit = <<"1", "1", "0">>
    /\ assetAllocation = <<"1", "0">>
    /\ results.partialTPProfits = NULL
    /\ results.partialTPLevels.tp2.price = Q(215, 2)
    /\ results.potentialProfit = Num(200)

-----------------------------------------------------------------------------
(* SpecCapitalScale: one trade at entry 100 sized for several capitals       *)

ScaleCapitals ==
    {<<"7", "0", "0">>, <<"1", "0", "0", "0">>, <<"2", "5", "0", "0">>,
     <<"1", "0", "0", "0", "0">>}

NextCapitalScale ==
    \/ SetEntryPrice(<<"1", "0", "0">>)
    \/ \E v \in {<<"9", "5">>, <<"9", "6">>, <<"1", "0", "4">>} : SetStopLoss(v)
    \/ \E v \in {<<"8", "0">>, <<"1", "2", "0">>} : SetTakeProfit(v)
    \/ \E v \in ScaleCapitals \cup {Empty} : SetTotalCapital(v)
    \/ \E t \in {"long", "short"} : SetPositionType(t)
    \/ \E v \in {<<"1">>, <<"2">>} : SetRiskPercentage(v)
    \/ \E v \in {<<"1", "0">>, <<"2", "0">>} : SetAssetAllocation(v)

SpecCapitalScale == Init /\ [][NextCapitalScale]_vars

\* what the screen computes when the capital field holds c and every other
\* field is as in the current state
resultsForCapital(c) == calculateRiskReward([State EXCEPT !.totalCapital = c])

\* C28: the recommended leverage does not depend on the amount of capital:
\* for the same entry, stop, risk percentage, allocation and max leverage any
\* two positive capitals give the same recommended leverage and the same
\* riskPercentageMove, and positionValue, recommendedAssets, potentialLoss
\* and potentialProfit are in the proportion of the two capitals.
C28_LeverageIndependentOfCapital ==
    (Sized /\ Gt(capital, Num(0))) =>
        \A c \in ScaleCapitals :
            /\ resultsForCapital(c).leverageInfo.optimal
                   = results.leverageInfo.optimal
            /\ resultsForCapital(c).leverageInfo.riskPercentageMove
                   = results.leverageInfo.riskPercentageMove
            /\ resultsForCapital(c).positionValue
                   = Mul(results.positionValue, Div(parseFloat(c), capital))
            /\ resultsForCapital(c).recommendedAssets
                   = Mul(results.recommendedAssets, Div(parseFloat(c), capital))
            /\ resultsForCapital(c).potentialLoss
                   = Mul(results.potentialLoss, Div(parseFloat(c), capital))
            /\ resultsForCapital(c).potentialProfit
                   = Mul(results.potentialProfit, Div(parseFloat(c), capital))

-----------------------------------------------------------------------------
(* SpecManual: both variants of the screen on the same form, entry 100, the  *)
(* stop up to MaxManualDistance away on either side, targets 3 to 15 away,   *)
(* and the leverage field of the manual variant                              *)

MaxManualDistance == 6

ManualStops ==
    TextsOf(100 - MaxManualDistance, 100 + MaxManualDistance, 1) \cup {Empty}

ManualTargets ==
    {Empty, <<"0">>, <<"8", "5">>, <<"9", "0">>, <<"9", "1">>, <<"9", "4">>,
     <<"9", "7">>, <<"1", "0", "3">>, <<"1", "0", "6">>, <<"1", "0", "9">>,
     <<"1", "1", "0">>, <<"1", "1", "5">>}

ManualLeverages == {<<"1">>, <<"2">>, <<"3">>, <<"5">>, <<"1", "0">>}

\* texts of the Risk % field of the manual variant
ManualRisks == {Empty, <<"1">>, <<"2", ".", "5">>}

NextManual ==
    \/ \E v \in {Empty, <<"1", "0", "0">>} : SetEntryPrice(v)
    \/ \E v \in ManualStops : SetStopLoss(v)
    \/ \E v \in ManualTargets : SetTakeProfit(v)
    \/ \E v \in {Empty, <<"1", "0", "0", "0", "0">>} : SetTotalCapital(v)
    \/ \E t \in {"long", "short"} : SetPositionType(t)
    \/ \E v \in ManualLeverages : SetLeverage(v)
    \/ \E v \in ManualRisks : SetRiskPercentage(v)

SpecManual == InitManual /\ [][NextManual]_vars

\* the manual variant returned a result object for a valid trade
ManualValid == manualResults # NULL /\ ~manualResults.error

\* C29: on the same entry, stop, target and position type the two variants
\* both return null, or both return the error object, or both return the
\* same riskPerCoin, rewardPerCoin and ratio; and when the leverage typed in
\* the manual variant equals the leverage the auto variant recommends, both
\* give the same recommendedAssets, potentialLoss and potentialProfit.
C29_VariantsAgree ==
    /\ (results = NULL) <=> (manualResults = NULL)
    /\ results # NULL =>
           /\ results.error <=> manualResults.error
           /\ results.error => manualResults = results
           /\ ~results.error =>
                  /\ manualResults.riskPerCoin = results.riskPerCoin
                  /\ manualResults.rewardPerCoin = results.rewardPerCoin
                  /\ manualResults.ratio = results.ratio
    /\ (Sized /\ EqNum(parseFloat(leverage), results.leverageInfo.optimal)) =>
           /\ manualResults.recommendedAssets = results.recommendedAssets
           /\ manualResults.potentialLoss = results.potentialLoss
           /\ manualResults.potentialProfit = results.potentialProfit

\* a long 100 / 98 / 106 with capital 10000: the auto variant recommends 5x,
\* the user of the manual variant typed 5, and both hold 50 units
C29_Witness ==
    /\ Sized
    /\ positionType = "long"
    /\ stopLoss = <<"9", "8">>
    /\ takeProfit = <<"1", "0", "6">>
    /\ leverage = <<"5">>
    /\ results.leverageInfo.optimal = Num(5)
    /\ manualResults.recommendedAssets = Num(50)
    /\ results.recommendedAssets = Num(50)
    /\ manualResults.potentialLoss = Num(100)

\* ratios and stop distances (% of entry) around the tier boundaries
TierRatios == {Num(1), Q(3, 2), Num(2), Q(5, 2), Num(3), Num(5)}

TierDistances == {Num(1), Num(2), Q(5, 2), Num(3), Num(5), Num(6)}

\* the stop distance of the current trade as a percentage of the entry
manualDistance == Mul(Div(manualResults.riskPerCoin, entry), Num(100))

\* the tier of the if / else-if chain for a ratio and a distance
TierFor(rec, ratio, distance) ==
    IF Ge(ratio, Num(3)) /\ Le(distance, Num(2))
    THEN rec.recommended = Num(3) /\ rec.min = Num(3) /\ rec.max = Num(5)
    ELSE IF Ge(ratio, Num(2)) /\ Le(distance, Num(3))
    THEN rec.recommended = Num(2) /\ rec.min = Num(2) /\ rec.max = Num(3)
    ELSE IF Ge(ratio, Q(3, 2)) /\ Le(distance, Num(5))
    THEN rec.recommended = Num(1) /\ rec.min = Num(1) /\ rec.max = Num(2)
    ELSE rec.recommended = Num(1) /\ rec.min = Num(1) /\ rec.max = Num(1)

\* no trade with a lower or equal ratio and a larger or equal distance gets a
\* higher recommendation than rec
NeverHigher(rec, ratio, distance) ==
    \A r \in TierRatios, d \in TierDistances :
        (Le(r, ratio) /\ Ge(d, distance)) =>
            Le(getLeverageRecommendation(r, d, Num(100)).recommended, rec.recommended)

\* the sizing of result m uses the leverage the user typed
SizedWithTyped(m) ==
    /\ m.recommendedAssets
           = Div(Mul(Div(Mul(capital, allocation), Num(100)), parseFloat(leverage)),
                 entry)
    /\ m.potentialLoss = Mul(m.recommendedAssets, m.riskPerCoin)
    /\ m.potentialProfit = Mul(m.recommendedAssets, m.rewardPerCoin)

\* the recommendation of result m at the stop distance given
TiersOf(m, distance) ==
    /\ TierFor(m.leverageRecommendation, m.ratio, distance)
    /\ Le(m.leverageRecommendation.min, m.leverageRecommendation.recommended)
    /\ Le(m.leverageRecommendation.recommended, m.leverageRecommendation.max)
    /\ NeverHigher(m.leverageRecommendation, m.ratio, distance)
    /\ Truthy(capital) => SizedWithTyped(m)

\* C30: in the manual variant the recommendation is 3 (range 3-5) when
\* ratio >= 3 and the stop distance is <= 2% of entry; otherwise 2 (range
\* 2-3) when ratio >= 2 and distance <= 3%; otherwise 1 (range 1-2) when
\* ratio >= 1.5 and distance <= 5%; otherwise 1 (range 1-1).  In every case
\* min <= recommended <= max; a trade with a lower or equal ratio and a
\* larger or equal distance never gets a higher recommendation; and the
\* sizing uses the leverage the user typed, not the recommendation.
C30_RecommendationTiers ==
    ManualValid => TiersOf(manualResults, manualDistance)

\* a short 100 / 102 / 94 (ratio 3, stop 2% away) with 5 typed as leverage:
\* the recommendation is 3 (3-5) and the position is sized with 5
C30_Witness ==
    /\ ManualValid
    /\ positionType = "short"
    /\ stopLoss = <<"1", "0", "2">>
    /\ takeProfit = <<"9", "4">>
    /\ leverage = <<"5">>
    /\ totalCapital = <<"1", "0", "0", "0", "0">>
    /\ manualResults.leverageRecommendation.recommended = Num(3)
    /\ manualResults.leverageRecommendation.max = Num(5)
    /\ manualResults.recommendedAssets = Num(50)

=============================================================================
